---- MODULE Spec2Model ----
(***************************************************************************)
(* Order extraction and nutrition resolution pipeline of the delivery food *)
(* summarizer backend: the exclusion gate, the e-mail parser (oracle pass  *)
(* and markup pass), the cascading calorie lookup with its append-only     *)
(* cache, and the background sync run that drives them.                    *)
(*                                                                         *)
(* Texts are sequences of tokens; a regular expression of the code is      *)
(* matched at token granularity (a token is a word, a quantity marker, a   *)
(* price, or one of the indicator phrases the code searches for).          *)
(* Python's None is the token NoneTok where a string is expected and the   *)
(* number NoCal where a calorie number is expected.                        *)
(***************************************************************************)
EXTENDS Integers, Sequences, FiniteSets, TLC

\* ------------------------------------------------------------------------
\* Values
\* ------------------------------------------------------------------------

\* None where a string (a name, a url) is expected.
NoneTok == "<None>"
\* A key absent from a JSON object.
Missing == "<missing>"
\* None where a number is expected (calories, totals).
NoCal == -1
\* A quantity a JSON dish carries that is not there / is null.
NoQty == -1

\* Python truthiness of a name: None and "" are falsy.  Names are token
\* sequences; "" is the empty sequence, None the one-token sequence NoneName.
NoneName == <<NoneTok>>
MissingName == <<Missing>>
TruthyName(n) == n # <<>> /\ n # NoneName

\* str.lower() / re.IGNORECASE on the tokens of the vocabulary.
Lower(t) ==
    CASE t = "Dosa" -> "dosa"
      [] t = "DOSA" -> "dosa"
      [] t = "Masala" -> "masala"
      [] t = "Udupi" -> "udupi"
      [] t = "Total" -> "total"
      [] t = "Item" -> "item"
      [] t = "Items" -> "items"
      [] t = "Qty" -> "qty"
      [] t = "50% OFF" -> "50% off"
      [] t = "Your order" -> "your order"
      [] t = "Instamart" -> "instamart"
      [] t = "Restaurant" -> "restaurant"
      [] OTHER -> t

LowerSeq(s) == [k \in 1..Len(s) |-> Lower(s[k])]

\* ------------------------------------------------------------------------
\* Exclusion classifier (instamart_filter.py) and bill gate (email_parser.py)
\* ------------------------------------------------------------------------

EXCLUSION_KEYWORDS == {"instamart", "insta mart", "grocery", "groceries",
                       "essentials delivery", "daily essentials",
                       "household items", "supermarket"}

BILL_INDICATORS == {"order confirmed", "order details", "your order",
                    "bill details", "item ordered", "items ordered",
                    "total amount", "total bill", "delivery address"}

NON_BILL_INDICATORS == {"otp is", "otp:", "verification code", "reset password",
                        "refer a friend", "refer friend", "promotional",
                        "coupon code", "exclusive offer", "payment failed",
                        "payment unsuccessful", "transaction failed",
                        "order cancelled", "refund initiated",
                        "refund processed"}

\* pattern.search(text) for a case-insensitive alternation of keywords.
Search(keywords, text) == \E k \in 1..Len(text) : Lower(text[k]) \in keywords

\* InstamrtFilter.should_exclude: subject first, then body.
should_exclude(subject, body) ==
    IF Search(EXCLUSION_KEYWORDS, subject) THEN TRUE
    ELSE IF Search(EXCLUSION_KEYWORDS, body) THEN TRUE
    ELSE FALSE

\* EmailParser.is_bill_email: text = subject + " " + body; non-bill
\* indicators are checked first.
is_bill_email(subject, body) ==
    LET text == subject \o body
    IN  IF Search(NON_BILL_INDICATORS, text) THEN FALSE
        ELSE IF Search(BILL_INDICATORS, text) THEN TRUE
        ELSE FALSE

\* ------------------------------------------------------------------------
\* Markup pass (email_parser.py, _parse_html and its helpers)
\* ------------------------------------------------------------------------

\* Tokens that are quantity markers, and the digits each carries:
\* "2 x" (N x), "x2" (x N), "(2)" ((N)).
QtyBeforeToks == {"2 x", "0 x"}
QtyAfterToks == {"x2", "x0", "x1"}
QtyParenToks == {"(2)"}
QtyToks == QtyBeforeToks \cup QtyAfterToks \cup QtyParenToks
PriceToks == {"Rs240", "Rs120", "Rs60"}

\* int(digits) of a quantity marker.
QtyDigits(t) ==
    CASE t \in {"2 x", "x2", "(2)"} -> 2
      [] t \in {"0 x", "x0"} -> 0
      [] t = "x1" -> 1
      [] OTHER -> 1

IsWord(t) == t \notin QtyToks /\ t \notin PriceToks

\* len(text) of a cell text: the characters of its tokens and the single
\* spaces between them.
RECURSIVE CharLen(_)
CharLen(text) ==
    IF text = <<>> THEN 0
    ELSE Len(Head(text)) + (IF Len(text) > 1 THEN 1 ELSE 0) + CharLen(Tail(text))

HEADER_PREFIXES == {"item", "items", "qty", "quantity", "price", "total",
                    "subtotal", "sub-total", "delivery", "discount", "tax",
                    "gst", "charges"}

\* _is_header_or_total: a case-insensitive prefix match on the stripped text.
is_header_or_total(text) == text # <<>> /\ Lower(text[1]) \in HEADER_PREFIXES

\* _clean_dish_name: drop prices and quantity markers, collapse whitespace.
clean_dish_name(text) == SelectSeq(text, IsWord)

\* _extract_quantity: the leftmost "N x" / "x N" / "(N)" of the text, else 1.
extract_quantity(text) ==
    LET hits == {k \in 1..Len(text) : text[k] \in QtyToks}
    IN  IF hits = {} THEN 1
        ELSE QtyDigits(text[CHOOSE k \in hits : \A m \in hits : k <= m])

\* The dish of one table row (a record, or no dish): at least two cells, a
\* first cell longer than two characters that is no header or total.
RowHasDish(row) ==
    /\ row.cells >= 2
    /\ row.first # <<>>
    /\ CharLen(row.first) > 2
    /\ ~is_header_or_total(row.first)

RowDish(row) ==
    [name |-> clean_dish_name(row.first),
     quantity |-> extract_quantity(row.first \o row.rest)]

RECURSIVE TableDishes(_)
TableDishes(rows) ==
    IF rows = <<>> THEN <<>>
    ELSE (IF RowHasDish(Head(rows)) THEN <<RowDish(Head(rows))>> ELSE <<>>)
         \o TableDishes(Tail(rows))

\* One match of the itemised-list sweep on a line of text:
\* [N x] Name [x N | (N)] [- Rs | end of line].  The groups of a match are
\* the marker tokens found (or "" as re.findall gives for a group that did
\* not take part).
SweepMatch(line) ==
    LET start == IF line # <<>> /\ line[1] \in QtyBeforeToks THEN 2 ELSE 1
        words == {k \in start..Len(line) :
                    \A m \in start..k : IsWord(line[m])}
        last == IF words = {} THEN start - 1
                ELSE CHOOSE k \in words : \A m \in words : m <= k
        nxt == last + 1
        after == IF nxt <= Len(line) /\ line[nxt] \in QtyAfterToks
                 THEN line[nxt] ELSE ""
        paren == IF nxt <= Len(line) /\ line[nxt] \in QtyParenToks
                 THEN line[nxt] ELSE ""
    IN  [matched |-> last >= start,
         qty_before |-> IF start = 2 THEN line[1] ELSE "",
         name |-> SubSeq(line, start, last),
         qty_after |-> after,
         qty_paren |-> paren]

\* int(qty_before or qty_after or qty_paren or 1)
SweepQuantity(m) ==
    IF m.qty_before # "" THEN QtyDigits(m.qty_before)
    ELSE IF m.qty_after # "" THEN QtyDigits(m.qty_after)
    ELSE IF m.qty_paren # "" THEN QtyDigits(m.qty_paren)
    ELSE 1

RECURSIVE SweepDishes(_)
SweepDishes(lines) ==
    IF lines = <<>> THEN <<>>
    ELSE LET m == SweepMatch(Head(lines))
         IN  (IF m.matched /\ CharLen(m.name) > 2 /\ ~is_header_or_total(m.name)
              THEN <<[name |-> clean_dish_name(m.name),
                      quantity |-> SweepQuantity(m)]>>
              ELSE <<>>)
             \o SweepDishes(Tail(lines))

\* The text of the document, line by line: the lines outside tables followed
\* by the text of each table row (soup.get_text()).
BodyLines(body) ==
    body.lines \o [k \in 1..Len(body.rows) |->
                     body.rows[k].first \o body.rows[k].rest]

RECURSIVE Flatten(_)
Flatten(lines) ==
    IF lines = <<>> THEN <<>> ELSE Head(lines) \o Flatten(Tail(lines))

BodyText(body) == Flatten(BodyLines(body))

\* _extract_dishes: the table rows, and the sweep only when they gave nothing.
extract_dishes(body) ==
    LET dishes == TableDishes(body.rows)
    IN  IF dishes # <<>> THEN dishes ELSE SweepDishes(BodyLines(body))

\* Subject pattern "order from X (is|has|-|end)": the name is the tokens
\* after "from" up to the first terminator.
SubjectTerminators == {"is", "has", "-"}

SubjectRestaurant(subject) ==
    LET leads == {k \in 1..Len(subject) - 2 :
                    /\ Lower(subject[k]) \in {"your order", "order"}
                    /\ subject[k + 1] = "from"}
    IN  IF leads = {} THEN NoneName
        ELSE LET k == CHOOSE a \in leads : \A b \in leads : a <= b
                 stops == {m \in k + 3..Len(subject) :
                             subject[m] \in SubjectTerminators}
                 stop == IF stops = {} THEN Len(subject) + 1
                         ELSE CHOOSE a \in stops : \A b \in stops : a <= b
             IN  SubSeq(subject, k + 2, stop - 1)

\* Body pattern "(ordered from|restaurant)[: ]* X (newline|,|end)": the name
\* is the rest of the line; a capture of white space alone strips to "".
BodyRestaurant(body) ==
    LET text == BodyLines(body)
        leads == {k \in 1..Len(text) :
                    /\ text[k] # <<>>
                    /\ Lower(text[k][1]) \in {"ordered from", "restaurant"}}
    IN  IF leads = {} THEN NoneName
        ELSE LET k == CHOOSE a \in leads : \A b \in leads : a <= b
             IN  IF Len(text[k]) > 1 THEN Tail(text[k])
                 ELSE IF k < Len(text) THEN <<>>
                 ELSE NoneName

\* _extract_restaurant_name: subject, then the first element a restaurant
\* selector finds (body.elem, "" when it has no text), then the body text.
extract_restaurant_name(body, subject) ==
    IF SubjectRestaurant(subject) # NoneName THEN SubjectRestaurant(subject)
    ELSE IF TruthyName(body.elem) THEN body.elem
    ELSE BodyRestaurant(body)

\* A parsed order, or NoOrder (None).
NoOrder == [ok |-> FALSE, restaurant_name |-> NoneName, dishes |-> <<>>,
            pass |-> "none"]

\* _parse_html: a candidate only when both the restaurant name and the dish
\* list are truthy; body.broken is markup on which the parser raises, which
\* the method catches.
parse_html(body, subject) ==
    IF body.broken THEN NoOrder
    ELSE LET restaurant_name == extract_restaurant_name(body, subject)
             dishes == extract_dishes(body)
         IN  IF TruthyName(restaurant_name) /\ dishes # <<>>
             THEN [ok |-> TRUE, restaurant_name |-> restaurant_name,
                   dishes |-> dishes, pass |-> "markup"]
             ELSE NoOrder

\* ------------------------------------------------------------------------
\* Order date of the markup pass (email_parser.py, _extract_order_date)
\* ------------------------------------------------------------------------

\* A datetime at minute precision: the day of the year and the minute of the
\* day, 0 for 00:00.  NoDate is None.
At(day, minute) == [day |-> day, minute |-> minute]
NoDate == At(0, 0)
\* A time string that no format parses.
NoTime == -1

\* The tokens each of the three date_patterns matches, in the order of the
\* list: "12 Jan 2026" / "12-Jan-2026", "January 12, 2026", "12/01/2026".
DateToks1 == {"12 Jan 2026", "32 Jan 2026"}
DateToks2 == {"January 12, 2026"}
DateToks3 == {"13/01/2026"}
date_patterns == <<DateToks1, DateToks2, DateToks3>>

\* The tokens each of the three time_patterns matches: "1:36 PM", a time
\* after "ordered at" / "time:" (which the first pattern matches as well),
\* and "13:36 hrs".
TimeToks1 == {"1:36 PM", "13:36 PM", "time: 9:05 pm"}
TimeToks2 == {"time: 9:05 pm"}
TimeToks3 == {"13:36 hrs"}
time_patterns == <<TimeToks1, TimeToks2, TimeToks3>>

\* re.search(pattern, text): the leftmost match, NoneTok for no match.
ReSearch(toks, text) ==
    LET hits == {k \in 1..Len(text) : text[k] \in toks}
    IN  IF hits = {} THEN NoneTok
        ELSE text[CHOOSE k \in hits : \A m \in hits : k <= m]

\* datetime.strptime of a matched date over the six formats, first format
\* that parses: day 32 parses under none, 13/01 under %d/%m/%Y.
strptime_date(date_str) ==
    CASE date_str = "12 Jan 2026" -> At(12, 0)
      [] date_str = "January 12, 2026" -> At(12, 0)
      [] date_str = "13/01/2026" -> At(13, 0)
      [] OTHER -> NoDate

\* datetime.strptime of group 1 of a matched time over "%I:%M %p", "%I:%M%p",
\* "%H:%M": the minute of the day.  "13:36 PM" parses under none (hour 13 is
\* no %I hour, and %H:%M leaves " PM" unconverted).
strptime_time(time_str) ==
    CASE time_str = "1:36 PM" -> 13 * 60 + 36
      [] time_str = "time: 9:05 pm" -> 21 * 60 + 5
      [] time_str = "13:36 hrs" -> 13 * 60 + 36
      [] OTHER -> NoTime

\* The loop over date_patterns from pattern p on: the first pattern whose
\* leftmost match parses gives the date; a pattern whose leftmost match does
\* not parse is passed over.
RECURSIVE DateLoop(_, _)
DateLoop(text, p) ==
    IF p > Len(date_patterns) THEN NoDate
    ELSE LET match == ReSearch(date_patterns[p], text)
         IN  IF match # NoneTok /\ strptime_date(match) # NoDate
             THEN strptime_date(match)
             ELSE DateLoop(text, p + 1)

\* The loop over time_patterns from pattern p on: the first pattern that
\* matches ends the loop, whether its match parses or not, and the parsed
\* time is put into order_date only when there is one.
RECURSIVE TimeLoop(_, _, _)
TimeLoop(text, p, order_date) ==
    IF p > Len(time_patterns) THEN order_date
    ELSE LET match == ReSearch(time_patterns[p], text)
         IN  IF match = NoneTok THEN TimeLoop(text, p + 1, order_date)
             ELSE IF strptime_time(match) # NoTime /\ order_date # NoDate
             THEN At(order_date.day, strptime_time(match))
             ELSE order_date

\* _extract_order_date: the date, with the time of day when there is a date.
extract_order_date(body) ==
    TimeLoop(BodyText(body), 1, DateLoop(BodyText(body), 1))

\* The candidate of _parse_html with its "order_date" (lines 123 and 128 to
\* 133): order_date or datetime.now(), now being the clock when the parser
\* runs.
parse_html_dated(body, subject, now) ==
    LET order == parse_html(body, subject)
        order_date == extract_order_date(body)
    IN  [ok |-> order.ok, restaurant_name |-> order.restaurant_name,
         order_date |-> IF ~order.ok THEN NoDate
                        ELSE IF order_date # NoDate THEN order_date ELSE now,
         dishes |-> order.dishes]

\* ------------------------------------------------------------------------
\* Oracle pass (email_parser.py, _parse_with_llm) and parse_order_email
\* ------------------------------------------------------------------------

\* A JSON dish whose "quantity" key is absent.
MissingQty == -2

\* _parse_with_llm on one completion of the oracle.  resp.kind: "raise" (the
\* call raises), "text" (the completion is no JSON), "list" (JSON, but no
\* object, so data.get raises), "json" (a JSON object).  Every exception is
\* caught and gives None.  From an object the method takes
\* data.get("restaurant_name", "Unknown Restaurant") and
\* data.get("dishes", []) as they are.
parse_with_llm(resp) ==
    IF resp.kind # "json" THEN NoOrder
    ELSE [ok |-> TRUE,
          restaurant_name |-> IF resp.restaurant_name = MissingName
                              THEN <<"Unknown", "Restaurant">>
                              ELSE resp.restaurant_name,
          dishes |-> IF resp.dishes_kind = "list" THEN resp.dishes ELSE <<>>,
          pass |-> "oracle"]

\* `result and result.get("dishes")`
LlmResultAccepted(result) == result.ok /\ result.dishes # <<>>

\* A mutant of parse_order_email: the passes run without the bill gate.
parse_order_email_ungated(body, subject, client, resp) ==
    IF client /\ LlmResultAccepted(parse_with_llm(resp))
    THEN [order |-> parse_with_llm(resp), passes |-> <<"oracle">>,
          reason |-> "parsed"]
    ELSE LET result == parse_html(body, subject)
         IN  [order |-> result,
              passes |-> (IF client THEN <<"oracle">> ELSE <<>>) \o <<"markup">>,
              reason |-> IF result.ok THEN "parsed" ELSE "unparseable"]

\* parse_order_email: the bill gate, the oracle pass when a client is
\* configured, then the markup pass.  `passes` lists the passes attempted.
parse_order_email(body, subject, client, resp) ==
    IF ~is_bill_email(subject, BodyText(body))
    THEN [order |-> NoOrder, passes |-> <<>>, reason |-> "not a bill"]
    ELSE IF client /\ LlmResultAccepted(parse_with_llm(resp))
    THEN [order |-> parse_with_llm(resp), passes |-> <<"oracle">>,
          reason |-> "parsed"]
    ELSE LET result == parse_html(body, subject)
         IN  [order |-> result,
              passes |-> (IF client THEN <<"oracle">> ELSE <<>>) \o <<"markup">>,
              reason |-> IF result.ok THEN "parsed" ELSE "unparseable"]

\* The extraction of one message as process_emails runs it: the exclusion
\* filter, then parse_order_email.
ExtractMessage(msg, client, resp) ==
    IF should_exclude(msg.subject, BodyText(msg.body))
    THEN [order |-> NoOrder, passes |-> <<>>, reason |-> "excluded"]
    ELSE parse_order_email(msg.body, msg.subject, client, resp)

\* ------------------------------------------------------------------------
\* Inputs of the extraction
\* ------------------------------------------------------------------------

S_confirmed == <<"Your order", "from", "Udupi", "is", "confirmed">>
S_promo == <<"50% OFF", "on", "your", "next", "order!">>
S_instamart == <<"Your order", "from", "Instamart", "is", "confirmed">>
S_cancelled == <<"Your order", "from", "Udupi", "has", "been", "order cancelled">>
S_details == <<"order details">>

Subjects == {S_confirmed, S_promo, S_instamart, S_cancelled, S_details}

Row(cells, first, rest) == [cells |-> cells, first |-> first, rest |-> rest]

Body(lines, elem, rows) ==
    [lines |-> lines, elem |-> elem, rows |-> rows, broken |-> FALSE]

HeaderRow == Row(2, <<"Item">>, <<"Qty">>)
TotalRow == Row(2, <<"Total">>, <<"Rs240">>)

B_table == Body(<<>>, NoneName,
                <<HeaderRow, Row(3, <<"Masala", "Dosa">>, <<"x2", "Rs240">>),
                  Row(2, <<"Dosa">>, <<"Rs60">>), TotalRow>>)
B_pair == Body(<<>>, NoneName,
               <<Row(3, <<"Dosa">>, <<"x2", "Rs120">>),
                 Row(2, <<"Dosa">>, <<"Rs60">>)>>)
B_zero == Body(<<>>, NoneName, <<Row(3, <<"Dosa">>, <<"x0", "Rs60">>)>>)
B_price == Body(<<>>, NoneName, <<Row(2, <<"Rs240">>, <<"Dosa">>)>>)
B_onecell == Body(<<>>, NoneName, <<Row(1, <<"Dosa">>, <<>>)>>)
B_sweep == Body(<<<<"2 x", "Masala", "Dosa", "Rs240">>, <<"Dosa">>>>,
                NoneName, <<>>)
B_sweepzero == Body(<<<<"0 x", "Dosa">>, <<"Dosa", "(2)">>>>, NoneName, <<>>)
B_elem == Body(<<>>, <<"Udupi">>, <<Row(2, <<"Dosa", "x2">>, <<"Rs60">>)>>)
B_bodyname == Body(<<<<"Restaurant", "Udupi">>, <<"Dosa", "x2">>>>,
                   NoneName, <<>>)
B_blankname == Body(<<<<"Restaurant">>, <<"Dosa">>>>, NoneName, <<>>)
B_headers == Body(<<<<"Total", "Rs240">>>>, <<>>, <<HeaderRow, TotalRow>>)
B_grocery == Body(<<<<"grocery">>, <<"Dosa">>>>, NoneName, <<>>)
B_otp == Body(<<<<"otp is">>, <<"Dosa">>>>, <<"Udupi">>, <<>>)
B_bill == Body(<<<<"bill details">>>>, <<"Udupi">>,
               <<Row(2, <<"Dosa">>, <<"x1">>)>>)
B_broken == [lines |-> <<<<"Dosa">>>>, elem |-> <<"Udupi">>, rows |-> <<>>,
             broken |-> TRUE]
B_empty == Body(<<>>, NoneName, <<>>)

Bodies == {B_table, B_pair, B_zero, B_price, B_onecell, B_sweep, B_sweepzero, B_elem,
           B_bodyname, B_blankname, B_headers, B_grocery, B_otp, B_bill,
           B_broken, B_empty}

\* Bodies for the order date, each with the restaurant element and one dish
\* row: no date and no time, a date, a date and a time, a time alone, a
\* first date match that does not parse before one that would, a date of the
\* third pattern with a 24-hour time, a first time match that does not parse
\* before one that would, and a labelled time.
DatedBody(lines) ==
    Body(lines, <<"Udupi">>, <<Row(2, <<"Dosa", "x2">>, <<"Rs60">>)>>)

D_date == DatedBody(<<<<"Your order", "12 Jan 2026">>>>)
D_datetime == DatedBody(<<<<"12 Jan 2026", "1:36 PM">>>>)
D_timeonly == DatedBody(<<<<"Your order", "1:36 PM">>>>)
D_badfirst == DatedBody(<<<<"32 Jan 2026">>, <<"12 Jan 2026">>>>)
D_fallback == DatedBody(<<<<"32 Jan 2026">>, <<"13/01/2026", "13:36 hrs">>>>)
D_badtime == DatedBody(<<<<"January 12, 2026">>, <<"13:36 PM">>,
                         <<"13:36 hrs">>>>)
D_label == DatedBody(<<<<"13/01/2026", "time: 9:05 pm">>>>)

DatedBodies == {B_elem, D_date, D_datetime, D_timeonly, D_badfirst, D_fallback,
                D_badtime, D_label, B_broken, B_empty}

\* Readings of the clock (datetime.now()) at which an extraction runs: the
\* evening of one day and the first minutes of the next.
Clock == {At(306, 21 * 60 + 30), At(307, 5)}

JsonDish(name, quantity) == [name |-> name, quantity |-> quantity]

LlmJson(restaurant_name, dishes_kind, dishes) ==
    [kind |-> "json", restaurant_name |-> restaurant_name,
     dishes_kind |-> dishes_kind, dishes |-> dishes]

LlmFailure(kind) ==
    [kind |-> kind, restaurant_name |-> MissingName,
     dishes_kind |-> "missing", dishes |-> <<>>]

\* The completions considered inside a sync run.
SyncParseResponses ==
    {LlmFailure("raise"),
     LlmJson(<<"Udupi">>, "list", <<JsonDish(<<"DOSA">>, 2)>>),
     LlmJson(<<"Udupi">>, "list", <<JsonDish(<<"Dosa">>, MissingQty)>>)}

\* Completions of the oracle for an extraction prompt.
LlmParseResponses ==
    {LlmFailure("raise"), LlmFailure("text"), LlmFailure("list"),
     LlmJson(MissingName, "missing", <<>>),
     LlmJson(<<"Udupi">>, "null", <<>>),
     LlmJson(<<"Udupi">>, "list", <<>>),
     LlmJson(<<"Udupi">>, "list",
             <<JsonDish(<<"Masala", "Dosa">>, 1), JsonDish(<<"Dosa">>, 2)>>),
     LlmJson(<<>>, "list", <<JsonDish(<<"Dosa">>, 1)>>),
     LlmJson(NoneName, "list", <<JsonDish(<<"Dosa">>, 1)>>),
     LlmJson(MissingName, "list", <<JsonDish(<<"Dosa">>, 1)>>),
     LlmJson(<<"Udupi">>, "list", <<JsonDish(<<"Dosa">>, MissingQty)>>),
     LlmJson(<<"Udupi">>, "list", <<JsonDish(<<"Dosa">>, NoQty)>>),
     LlmJson(<<"Udupi">>, "list", <<JsonDish(<<"Dosa">>, 0)>>),
     LlmJson(<<"Udupi">>, "list", <<JsonDish(MissingName, 1)>>)}

\* ------------------------------------------------------------------------
\* Calorie cache (calorie_lookup.py, _check_cache and _save_to_cache)
\* ------------------------------------------------------------------------

\* column.ilike("%pattern%"): a case-insensitive substring match; a NULL
\* column matches nothing.
ILike(stored, pattern) ==
    /\ stored # NoneName
    /\ \E k \in 1..(Len(stored) - Len(pattern) + 1) :
          LowerSeq(SubSeq(stored, k, k + Len(pattern) - 1)) = LowerSeq(pattern)

Fact(calories, is_estimated, source_url) ==
    [some |-> TRUE, calories |-> calories, is_estimated |-> is_estimated,
     source_url |-> source_url]

\* None, where a method returns Optional[dict].
NoFact ==
    [some |-> FALSE, calories |-> NoCal, is_estimated |-> FALSE,
     source_url |-> NoneTok]

\* The terminal fallback of get_calories.
NullFact == Fact(NoCal, TRUE, NoneTok)

RowFact(row) == Fact(row.calories, row.is_estimated, row.source_url)

\* The rows a lookup matches: by dish name alone, or by dish name and
\* restaurant name.
DishMatches(rows, dish_name) ==
    {k \in 1..Len(rows) : ILike(rows[k].dish_name, dish_name)}

BothMatch(rows, dish_name, restaurant_name) ==
    {k \in DishMatches(rows, dish_name) :
       ILike(rows[k].restaurant_name, restaurant_name)}

Lowest(hits) == IF hits = {} THEN 0 ELSE CHOOSE k \in hits : \A m \in hits : k <= m
Highest(hits) == IF hits = {} THEN 0 ELSE CHOOSE k \in hits : \A m \in hits : m <= k

\* A mutant of check_cache_row: the last matching row instead of the first.
check_cache_row_last(rows, dish_name, restaurant_name) ==
    LET restricted == IF TruthyName(restaurant_name)
                      THEN Highest(BothMatch(rows, dish_name, restaurant_name))
                      ELSE 0
    IN  IF restricted # 0 THEN restricted
        ELSE Highest(DishMatches(rows, dish_name))

\* _check_cache: the dish-name match restricted to the restaurant first (when
\* a restaurant name is given), then the dish-name match alone.  Gives the
\* index of the row found, 0 for None.  query.first(): the rows are never
\* updated or deleted, and the scan of the table gives them in insertion
\* order.
check_cache_row(rows, dish_name, restaurant_name) ==
    LET restricted == IF TruthyName(restaurant_name)
                      THEN Lowest(BothMatch(rows, dish_name, restaurant_name))
                      ELSE 0
    IN  IF restricted # 0 THEN restricted
        ELSE Lowest(DishMatches(rows, dish_name))

\* A mutant of check_cache: the lookup finds nothing, whatever the table holds.
check_cache_none(rows, dish_name, restaurant_name) == NoFact

check_cache(rows, dish_name, restaurant_name) ==
    LET k == check_cache_row(rows, dish_name, restaurant_name)
    IN  IF k = 0 THEN NoFact ELSE RowFact(rows[k])

CacheRow(dish_name, restaurant_name, calories, source_url, is_estimated) ==
    [dish_name |-> dish_name, restaurant_name |-> restaurant_name,
     calories |-> calories, source_url |-> source_url,
     is_estimated |-> is_estimated]

\* A mutant of save_to_cache: an upsert, which replaces the row of the same
\* dish and restaurant when there is one.
save_to_cache_upsert(rows, row) ==
    LET same == {k \in 1..Len(rows) :
                   /\ rows[k].dish_name = row.dish_name
                   /\ rows[k].restaurant_name = row.restaurant_name}
    IN  IF same = {} THEN Append(rows, row)
        ELSE [k \in 1..Len(rows) |-> IF k \in same THEN row ELSE rows[k]]

\* _save_to_cache: db.add(CalorieCache(...)); db.commit() -- one more row.
save_to_cache(rows, row) == Append(rows, row)

\* ------------------------------------------------------------------------
\* The sources of the cascade (calorie_lookup.py)
\* ------------------------------------------------------------------------

\* Sanity range of an estimate.
LLM_MIN_CALORIES == 50
LLM_MAX_CALORIES == 2000

NINJAS_URL == "https://api-ninjas.com/api/nutrition"

\* _lookup_api_ninjas on a response: resp.kind is "raise" (the request
\* raises), "status" (a status other than 200) or "ok" with resp.total the sum
\* of the calories of the records returned (0 for an empty list).
lookup_api_ninjas(resp) ==
    IF resp.kind = "ok" /\ resp.total > 0
    THEN Fact(resp.total, FALSE, NINJAS_URL)
    ELSE NoFact

NinjasResponses ==
    {[kind |-> "raise", total |-> 0], [kind |-> "status", total |-> 0],
     [kind |-> "ok", total |-> 0], [kind |-> "ok", total |-> 100]}

\* `if calories:` on what _extract_calorie_number returned (None or a float).
TruthyCal(c) == c # NoCal /\ c # 0

\* The first of at most three organic results with a calorie number.
OrganicHit(organic) ==
    LET top == SubSeq(organic, 1, IF Len(organic) < 3 THEN Len(organic) ELSE 3)
        hits == {k \in 1..Len(top) : TruthyCal(top[k])}
    IN  IF hits = {} THEN 0 ELSE CHOOSE k \in hits : \A m \in hits : k <= m

\* _search_web on a response: resp.answer is the number extracted from the
\* answer box (NoCal when there is no answer box or no number in it),
\* resp.organic the number extracted from each organic result in turn.
search_web(resp) ==
    IF resp.kind # "ok" THEN NoFact
    ELSE IF TruthyCal(resp.answer) THEN Fact(resp.answer, FALSE, "answer link")
    ELSE IF OrganicHit(resp.organic) # 0
    THEN Fact(resp.organic[OrganicHit(resp.organic)], FALSE, "result link")
    ELSE NoFact

WebResponse(kind, answer, organic) ==
    [kind |-> kind, answer |-> answer, organic |-> organic]

\* _estimate_with_llm on a completion: resp.number is the first number in
\* the text (NoCal when the text holds none).
estimate_with_llm(resp) ==
    IF /\ resp.kind = "ok"
       /\ resp.number # NoCal
       /\ LLM_MIN_CALORIES <= resp.number
       /\ resp.number <= LLM_MAX_CALORIES
    THEN Fact(resp.number, TRUE, NoneTok)
    ELSE NoFact

\* The responses considered inside a sync run.
SyncWebResponses ==
    {WebResponse("raise", NoCal, <<>>), WebResponse("ok", 0, <<NoCal>>),
     WebResponse("ok", 200, <<150>>)}

LlmEstimateResponses ==
    {[kind |-> "raise", number |-> NoCal], [kind |-> "ok", number |-> NoCal],
     [kind |-> "ok", number |-> 30], [kind |-> "ok", number |-> 300],
     [kind |-> "ok", number |-> 2500]}

\* ------------------------------------------------------------------------
\* Dish categories (health_intelligence.py, _classify_dish)
\* ------------------------------------------------------------------------

\* str.lower() of one character and of a string.
LowerChar(c) ==
    CASE c = "A" -> "a" [] c = "B" -> "b" [] c = "C" -> "c" [] c = "D" -> "d"
      [] c = "E" -> "e" [] c = "F" -> "f" [] c = "G" -> "g" [] c = "H" -> "h"
      [] c = "I" -> "i" [] c = "J" -> "j" [] c = "K" -> "k" [] c = "L" -> "l"
      [] c = "M" -> "m" [] c = "N" -> "n" [] c = "O" -> "o" [] c = "P" -> "p"
      [] c = "Q" -> "q" [] c = "R" -> "r" [] c = "S" -> "s" [] c = "T" -> "t"
      [] c = "U" -> "u" [] c = "V" -> "v" [] c = "W" -> "w" [] c = "X" -> "x"
      [] c = "Y" -> "y" [] c = "Z" -> "z" [] OTHER -> c

RECURSIVE StrLower(_)
StrLower(str) ==
    IF Len(str) = 0 THEN ""
    ELSE LowerChar(SubSeq(str, 1, 1)) \o StrLower(SubSeq(str, 2, Len(str)))

\* str.strip(): the blanks at both ends are dropped.
RECURSIVE StrStrip(_)
StrStrip(str) ==
    IF Len(str) = 0 THEN ""
    ELSE IF SubSeq(str, 1, 1) = " " THEN StrStrip(SubSeq(str, 2, Len(str)))
    ELSE IF SubSeq(str, Len(str), Len(str)) = " "
    THEN StrStrip(SubSeq(str, 1, Len(str) - 1))
    ELSE str

\* kw in text: kw occurs in text as a substring.
StrIn(kw, text) ==
    \E k \in 1..(Len(text) - Len(kw) + 1) :
        SubSeq(text, k, k + Len(kw) - 1) = kw

\* any(kw in text for kw in keywords)
AnyIn(keywords, text) ==
    \E k \in 1..Len(keywords) : StrIn(keywords[k], text)

CAT_A_KEYWORDS ==
    <<"grilled", "steamed", "tandoori", "tikka", "salad", "bowl", "dal",
      "daal", "dhal", "lentil", "rasam", "sambar", "sambhar", "idli",
      "appam", "ragi", "millet", "oats", "quinoa", "grilled chicken",
      "grilled fish", "grilled paneer", "boiled egg", "egg white", "poha",
      "upma", "sprout", "raita", "curd", "yogurt", "buttermilk", "chaas",
      "soup", "clear soup", "multigrain", "chapati", "roti", "phulka",
      "whole wheat", "brown rice", "steamed rice">>

CAT_B_KEYWORDS ==
    <<"biryani", "pulao", "rice bowl", "curry", "sabzi", "subzi", "thali",
      "meals", "combo meal", "stir fry", "stir-fry", "sauteed", "tawa",
      "egg", "omelette", "omelet", "bhurji", "thin crust", "pita", "wrap",
      "roll", "paneer", "tofu", "chicken", "fish", "prawn", "shrimp",
      "kebab", "seekh", "malai", "rajma", "chole", "chana", "chickpea",
      "mushroom", "palak", "spinach", "methi", "dosa", "uttapam", "pesarattu">>

CAT_C_KEYWORDS ==
    <<"butter chicken", "butter paneer", "butter masala", "cream", "creamy",
      "korma", "shahi", "naan", "garlic naan", "kulcha", "paratha",
      "parantha", "fried rice", "hakka noodle", "chow mein", "lo mein",
      "thick crust", "regular pizza", "burger", "sandwich", "sub", "pasta",
      "penne", "spaghetti", "alfredo", "manchurian", "gobi manchurian",
      "schezwan", "momos", "dumpling", "spring roll", "white rice",
      "jeera rice", "kadhai", "kadai", "karahi", "tikka masala", "masala dosa">>

CAT_D_KEYWORDS ==
    <<"fried", "deep fried", "deep-fried", "pakora", "pakoda", "bhajia",
      "bhaji", "samosa", "kachori", "vada", "bonda", "crispy", "crunchy",
      "golden fried", "french fries", "fries", "loaded fries",
      "peri peri fries", "fried chicken", "chicken wings", "wings",
      "nuggets", "popcorn chicken", "strips", "nachos", "loaded nachos",
      "puri", "poori", "bhatura", "chole bhature", "chilli chicken",
      "chilli paneer", "dragon chicken", "hot dog", "sausage">>

CAT_E_KEYWORDS ==
    <<"dessert", "ice cream", "gelato", "sundae", "cake", "pastry",
      "brownie", "cookie", "waffle", "pancake", "crepe", "gulab jamun",
      "rasgulla", "rasmalai", "jalebi", "kheer", "halwa", "barfi", "ladoo",
      "laddu", "mithai", "sweet", "payasam", "chocolate", "mousse",
      "tiramisu", "cheesecake", "milkshake", "shake", "frappe", "smoothie",
      "cold coffee", "iced coffee", "frappuccino", "soda", "cola", "pepsi",
      "coke", "fizz", "mojito", "cooler", "slush", "donut", "doughnut",
      "churro">>

CATEGORY_RAW_SCORES == [A |-> -7, B |-> 3, C |-> 12, D |-> 25, E |-> 37]

\* The chain identifiers and their floors, in the order of the dictionary.
RESTAURANT_CATEGORY_FLOORS ==
    <<<<"pizza hut", "C">>, <<"dominos", "C">>, <<"domino's", "C">>,
      <<"papa johns", "C">>, <<"papa john's", "C">>,
      <<"pizza express", "C">>, <<"la pino", "C">>, <<"la pinoz", "C">>,
      <<"oven story", "C">>, <<"mojo pizza", "C">>, <<"mcdonalds", "C">>,
      <<"mcdonald's", "C">>, <<"burger king", "C">>, <<"kfc", "D">>,
      <<"popeyes", "D">>, <<"wendy's", "C">>, <<"subway", "C">>,
      <<"taco bell", "C">>, <<"faasos", "C">>, <<"behrouz biryani", "C">>,
      <<"box8", "C">>, <<"rebel foods", "C">>, <<"wok express", "C">>,
      <<"baskin robbins", "E">>, <<"keventers", "E">>,
      <<"natural ice cream", "E">>, <<"cream stone", "E">>,
      <<"rolls mania", "D">>>>

\* A is the best category, E the worst.
CATEGORY_ORDER == [A |-> 0, B |-> 1, C |-> 2, D |-> 3, E |-> 4]

Categories == {"A", "B", "C", "D", "E"}

healthy_preps ==
    <<"grilled", "steamed", "boiled", "baked", "tandoori", "salad", "soup">>

\* The keyword stage with the desserts looked at before the healthy
\* preparations.
KeywordCategoryDessertFirst(name_lower) ==
    IF AnyIn(CAT_E_KEYWORDS, name_lower) THEN "E"
    ELSE IF AnyIn(healthy_preps, name_lower) THEN "A"
    ELSE IF AnyIn(CAT_D_KEYWORDS, name_lower) THEN "D"
    ELSE IF AnyIn(CAT_A_KEYWORDS, name_lower) THEN "A"
    ELSE IF AnyIn(CAT_B_KEYWORDS, name_lower) THEN "B"
    ELSE "C"

\* The keyword stage with the sets looked at from the best to the worst.
KeywordCategoryBestFirst(name_lower) ==
    IF AnyIn(healthy_preps, name_lower) THEN "A"
    ELSE IF AnyIn(CAT_A_KEYWORDS, name_lower) THEN "A"
    ELSE IF AnyIn(CAT_B_KEYWORDS, name_lower) THEN "B"
    ELSE IF AnyIn(CAT_C_KEYWORDS, name_lower) THEN "C"
    ELSE IF AnyIn(CAT_D_KEYWORDS, name_lower) THEN "D"
    ELSE IF AnyIn(CAT_E_KEYWORDS, name_lower) THEN "E"
    ELSE "C"

\* The keyword stage of _classify_dish (lines 165 to 186), on the lowered
\* and stripped name.
KeywordCategory(name_lower) ==
    IF AnyIn(healthy_preps, name_lower) THEN "A"
    ELSE IF AnyIn(CAT_E_KEYWORDS, name_lower) THEN "E"
    ELSE IF AnyIn(CAT_D_KEYWORDS, name_lower) THEN "D"
    ELSE IF AnyIn(CAT_A_KEYWORDS, name_lower) THEN "A"
    ELSE IF AnyIn(CAT_B_KEYWORDS, name_lower) THEN "B"
    ELSE IF AnyIn(CAT_C_KEYWORDS, name_lower) THEN "C"
    ELSE "C"

\* The positions of the chain identifiers that occur in the restaurant name.
FloorHits(restaurant_lower) ==
    {k \in 1..Len(RESTAURANT_CATEGORY_FLOORS) :
        StrIn(RESTAURANT_CATEGORY_FLOORS[k][1], restaurant_lower)}

\* The floor stage (lines 188 to 195): the loop over the dictionary stops at
\* the first identifier that occurs in the restaurant name, and the category
\* is replaced by that identifier's floor when it is better than the floor.
ApplyFloor(category, restaurant_lower) ==
    LET hits == FloorHits(restaurant_lower)
    IN  IF Len(restaurant_lower) = 0 \/ hits = {} THEN category
        ELSE LET first == CHOOSE k \in hits : \A m \in hits : k <= m
                 floor_cat == RESTAURANT_CATEGORY_FLOORS[first][2]
             IN  IF CATEGORY_ORDER[category] < CATEGORY_ORDER[floor_cat]
                 THEN floor_cat ELSE category

\* _classify_dish
classify_dish(dish_name, restaurant_name) ==
    ApplyFloor(KeywordCategory(StrStrip(StrLower(dish_name))),
               StrStrip(StrLower(restaurant_name)))

\* ------------------------------------------------------------------------
\* Health index (health_intelligence.py, compute_health_index)
\* ------------------------------------------------------------------------

\* The index left as it is.
NoClamp(n) == n

\* max(0, min(100, n))
Clamp(n) == IF n < 0 THEN 0 ELSE IF n > 100 THEN 100 ELSE n

\* round(num / den) for den > 0: the nearest integer, and of two equally
\* near ones the even one.
Round(num, den) ==
    LET q == num \div den
        r == num - q * den
    IN  IF 2 * r < den THEN q
        ELSE IF 2 * r > den THEN q + 1
        ELSE IF q % 2 = 0 THEN q ELSE q + 1

\* One entry of dishes_with_frequency; restaurant is "" for an entry
\* without the key.
FreqDish(name, count, restaurant) ==
    [name |-> name, count |-> count, restaurant |-> restaurant]

\* dish_categories: (name, category, count) of every entry, in order.
DishCategories(dishes) ==
    [k \in 1..Len(dishes) |->
        [name |-> dishes[k].name,
         category |-> classify_dish(dishes[k].name, dishes[k].restaurant),
         count |-> dishes[k].count]]

RECURSIVE TotalWeightedScore(_)
TotalWeightedScore(dish_categories) ==
    IF dish_categories = <<>> THEN 0
    ELSE CATEGORY_RAW_SCORES[Head(dish_categories).category]
             * Head(dish_categories).count
         + TotalWeightedScore(Tail(dish_categories))

RECURSIVE TotalCount(_)
TotalCount(dish_categories) ==
    IF dish_categories = <<>> THEN 0
    ELSE Head(dish_categories).count + TotalCount(Tail(dish_categories))

\* The index with the penalties applied from 20 percent and 2500 kcal on.
IndexOfCategoriesInclusive(dish_categories, late_night_order_pct, avg_daily_calories) ==
    LET total_weighted_score == TotalWeightedScore(dish_categories)
        total_count == TotalCount(dish_categories)
        penalty == (IF late_night_order_pct >= 20 THEN 5 ELSE 0)
                   + (IF avg_daily_calories >= 2500 THEN 5 ELSE 0)
    IN  IF total_count = 0 THEN 50
        ELSE Clamp(Round(5500 * total_count
                         - 100 * (total_weighted_score + 15 * total_count)
                         - 55 * total_count * penalty,
                         55 * total_count))

\* The index that rises with the average raw score.
IndexOfCategoriesRising(dish_categories, late_night_order_pct, avg_daily_calories) ==
    LET total_weighted_score == TotalWeightedScore(dish_categories)
        total_count == TotalCount(dish_categories)
        penalty == (IF late_night_order_pct > 20 THEN 5 ELSE 0)
                   + (IF avg_daily_calories > 2500 THEN 5 ELSE 0)
    IN  IF total_count = 0 THEN 50
        ELSE Clamp(Round(100 * (total_weighted_score + 15 * total_count)
                         - 55 * total_count * penalty,
                         55 * total_count))

\* Lines 231 to 248, on the classified entries.  With T the weighted score
\* and N the count, 100 - ((T / N + 15) * 100 / 55) less the penalties is
\* the fraction (5500 N - 100 (T + 15 N) - 55 N penalty) / (55 N), which is
\* rounded and clamped.
IndexOfCategories(dish_categories, late_night_order_pct, avg_daily_calories) ==
    LET total_weighted_score == TotalWeightedScore(dish_categories)
        total_count == TotalCount(dish_categories)
        penalty == (IF late_night_order_pct > 20 THEN 5 ELSE 0)
                   + (IF avg_daily_calories > 2500 THEN 5 ELSE 0)
    IN  IF total_count = 0 THEN 50
        ELSE Clamp(Round(5500 * total_count
                         - 100 * (total_weighted_score + 15 * total_count)
                         - 55 * total_count * penalty,
                         55 * total_count))

\* compute_health_index: 50 for an empty list.
compute_health_index(dishes, late_night_order_pct, avg_daily_calories) ==
    IF dishes = <<>> THEN 50
    ELSE IndexOfCategories(DishCategories(dishes), late_night_order_pct,
                           avg_daily_calories)

\* ------------------------------------------------------------------------
\* Daily scores (health_intelligence.py, calculate_daily_health_scores)
\* ------------------------------------------------------------------------

\* One order of a day, and one day of daily_orders (a dict, in insertion
\* order).
DayOrder(calories, dishes, hour, restaurant) ==
    [calories |-> calories, dishes |-> dishes, hour |-> hour,
     restaurant |-> restaurant]
Day(date, day_orders) == [date |-> date, orders |-> day_orders]

RECURSIVE SumCalories(_)
SumCalories(day_orders) ==
    IF day_orders = <<>> THEN 0
    ELSE Head(day_orders).calories + SumCalories(Tail(day_orders))

RECURSIVE TotalCalories(_)
TotalCalories(daily_orders) ==
    IF daily_orders = <<>> THEN 0
    ELSE SumCalories(Head(daily_orders).orders)
         + TotalCalories(Tail(daily_orders))

\* The calorie adjustment of a day: calorie_ratio is day_calories /
\* (total_calories / days), compared with 1.5, 1.2 and 0.8.
CalorieAdjustment(day_calories, total_calories, days) ==
    IF total_calories <= 0 THEN 0
    ELSE IF 2 * day_calories * days > 3 * total_calories THEN -15
    ELSE IF 5 * day_calories * days > 6 * total_calories THEN -8
    ELSE IF 5 * day_calories * days < 4 * total_calories THEN 5
    ELSE 0

\* The late night adjustment: once, for the first order at or after 22 or
\* before 5.
LateNightAdjustment(day_orders) ==
    IF \E k \in 1..Len(day_orders) :
          day_orders[k].hour >= 22 \/ day_orders[k].hour < 5
    THEN -10 ELSE 0

\* The inner loop over the dishes of one order: the first dish that is D or
\* E gives its penalty and ends the loop over this order's dishes.
RECURSIVE OrderDishAdjustment(_, _)
OrderDishAdjustment(dishes, restaurant) ==
    IF dishes = <<>> THEN 0
    ELSE LET cat == classify_dish(Head(dishes), restaurant)
         IN  IF cat = "D" THEN -5
             ELSE IF cat = "E" THEN -8
             ELSE OrderDishAdjustment(Tail(dishes), restaurant)

\* The outer loop over the orders of the day, which runs to its end.
RECURSIVE DishAdjustment(_)
DishAdjustment(day_orders) ==
    IF day_orders = <<>> THEN 0
    ELSE OrderDishAdjustment(Head(day_orders).dishes,
                             Head(day_orders).restaurant)
         + DishAdjustment(Tail(day_orders))

DayScore(day_orders, total_calories, days, base_health_index) ==
    Clamp(base_health_index
          + CalorieAdjustment(SumCalories(day_orders), total_calories, days)
          + LateNightAdjustment(day_orders)
          + DishAdjustment(day_orders))

\* calculate_daily_health_scores: one result per day, in the order of the
\* dict.
calculate_daily_health_scores(daily_orders, base_health_index) ==
    [k \in 1..Len(daily_orders) |->
        [date |-> daily_orders[k].date,
         health_index |-> DayScore(daily_orders[k].orders,
                                   TotalCalories(daily_orders),
                                   Len(daily_orders), base_health_index)]]

\* ------------------------------------------------------------------------
\* Summary (calendar.py, get_summary)
\* ------------------------------------------------------------------------

\* An order_date, to the minute (the formats of the extractor carry no
\* seconds), and the orders and dishes rows the summary reads.
Stamp(year, month, day, hour, minute) ==
    [year |-> year, month |-> month, day |-> day, hour |-> hour,
     minute |-> minute]
StoredDish(name, quantity) == [name |-> name, quantity |-> quantity]
StoredOrder(order_date, restaurant_name, total_calories, dishes) ==
    [order_date |-> order_date, restaurant_name |-> restaurant_name,
     total_calories |-> total_calories, dishes |-> dishes]

\* now - relativedelta(months=i): the year and the month.
MonthsAgo(now, i) ==
    LET n == now.year * 12 + (now.month - 1) - i
    IN  [year |-> n \div 12, month |-> (n % 12) + 1]

\* The query of one month (lines 182 to 193): the rows from the first of
\* the month up to, not including, the first of the next one, in row order.
MonthOrders(rows, target) ==
    LET InMonth(o) == /\ o.order_date.year = target.year
                      /\ o.order_date.month = target.month
    IN  SelectSeq(rows, InMonth)

\* all_orders after the loop over range(1, 7): the month before the
\* current one first, the sixth month back last.
RECURSIVE AllOrders(_, _, _)
AllOrders(rows, now, i) ==
    IF i > 6 THEN <<>>
    ELSE MonthOrders(rows, MonthsAgo(now, i)) \o AllOrders(rows, now, i + 1)

\* strftime("%Y-%m-%d"): year, month and day, each of fixed width, so the
\* order of the strings is the order of the triples.
date_str(order_date) == <<order_date.year, order_date.month, order_date.day>>

\* total_calories or 0
OrZero(total_calories) == IF total_calories = NoCal THEN 0 ELSE total_calories

\* The entry appended to daily_orders[date_str] (lines 205 to 209): it has
\* no "restaurant" key, so order.get("restaurant", "") is "" for it.
SummaryDayOrder(order) ==
    DayOrder(OrZero(order.total_calories),
             [k \in 1..Len(order.dishes) |-> order.dishes[k].name],
             order.order_date.hour, "")

\* daily_orders[date].append(entry) on the defaultdict: a new date is a new
\* key at the end.
AppendToDay(daily, date, entry) ==
    IF \E k \in 1..Len(daily) : daily[k].date = date
    THEN [k \in 1..Len(daily) |->
             IF daily[k].date = date
             THEN Day(date, Append(daily[k].orders, entry)) ELSE daily[k]]
    ELSE Append(daily, Day(date, <<entry>>))

RECURSIVE SummaryDailyOrders(_, _)
SummaryDailyOrders(all_orders, daily) ==
    IF all_orders = <<>> THEN daily
    ELSE SummaryDailyOrders(Tail(all_orders),
             AppendToDay(daily, date_str(Head(all_orders).order_date),
                         SummaryDayOrder(Head(all_orders))))

\* Line 212.
has_real_time(order_date) == ~(order_date.hour = 0 /\ order_date.minute = 0)

orders_with_time(all_orders) ==
    Cardinality({k \in 1..Len(all_orders) :
                    has_real_time(all_orders[k].order_date)})

late_night_count(all_orders) ==
    Cardinality({k \in 1..Len(all_orders) :
        /\ has_real_time(all_orders[k].order_date)
        /\ \/ all_orders[k].order_date.hour >= 22
           \/ all_orders[k].order_date.hour < 5})

\* The least integer that is not below num / den, for den > 0: a quotient
\* exceeds an integer threshold exactly when this does.
CeilDiv(num, den) == (num + den - 1) \div den

\* late_night_order_pct (line 268), as compared with the threshold.
late_night_order_pct(all_orders) ==
    IF orders_with_time(all_orders) > 0
    THEN CeilDiv(late_night_count(all_orders) * 100,
                 orders_with_time(all_orders))
    ELSE 0

\* dish_counts[dish_name] += quantity, a dict in the order of first use.
AddCount(counts, dish_name, quantity) ==
    IF \E k \in 1..Len(counts) : counts[k].name = dish_name
    THEN [k \in 1..Len(counts) |->
             IF counts[k].name = dish_name
             THEN [name |-> dish_name, count |-> counts[k].count + quantity]
             ELSE counts[k]]
    ELSE Append(counts, [name |-> dish_name, count |-> quantity])

RECURSIVE OrderDishCounts(_, _)
OrderDishCounts(dishes, counts) ==
    IF dishes = <<>> THEN counts
    ELSE OrderDishCounts(Tail(dishes),
             AddCount(counts, StrLower(StrStrip(Head(dishes).name)),
                      Head(dishes).quantity))

RECURSIVE dish_counts(_, _)
dish_counts(all_orders, counts) ==
    IF all_orders = <<>> THEN counts
    ELSE dish_counts(Tail(all_orders),
                     OrderDishCounts(Head(all_orders).dishes, counts))

\* str.upper() of one character, and str.title(): the first letter of
\* every run of letters in upper case, the others in lower case.
UpperChar(c) ==
    CASE c = "a" -> "A" [] c = "b" -> "B" [] c = "c" -> "C" [] c = "d" -> "D"
      [] c = "e" -> "E" [] c = "f" -> "F" [] c = "g" -> "G" [] c = "h" -> "H"
      [] c = "i" -> "I" [] c = "j" -> "J" [] c = "k" -> "K" [] c = "l" -> "L"
      [] c = "m" -> "M" [] c = "n" -> "N" [] c = "o" -> "O" [] c = "p" -> "P"
      [] c = "q" -> "Q" [] c = "r" -> "R" [] c = "s" -> "S" [] c = "t" -> "T"
      [] c = "u" -> "U" [] c = "v" -> "V" [] c = "w" -> "W" [] c = "x" -> "X"
      [] c = "y" -> "Y" [] c = "z" -> "Z" [] OTHER -> c
IsLetter(c) == UpperChar(c) # c \/ LowerChar(c) # c

RECURSIVE TitleFrom(_, _)
TitleFrom(str, in_word) ==
    IF Len(str) = 0 THEN ""
    ELSE LET c == SubSeq(str, 1, 1)
         IN  (IF in_word THEN LowerChar(c) ELSE UpperChar(c))
                 \o TitleFrom(SubSeq(str, 2, Len(str)), IsLetter(c))
StrTitle(str) == TitleFrom(str, FALSE)

\* dishes_with_frequency (lines 312 to 319): name, count and calories; no
\* entry has a "restaurant" key.
dishes_with_frequency(counts) ==
    [k \in 1..Len(counts) |->
        FreqDish(StrTitle(counts[k].name), counts[k].count, "")]

\* avg_daily_calories (lines 322 to 327), as compared with the threshold.
avg_daily_calories(daily) ==
    IF Len(daily) > 0 THEN CeilDiv(TotalCalories(daily), Len(daily)) ELSE 0

\* ------------------------------------------------------------------------
\* Health insights (health_intelligence.py, generate_health_insights)
\* ------------------------------------------------------------------------

\* data.get(key, default) on a parsed JSON object.
Get(data, key, default) == IF key \in DOMAIN data THEN data[key] ELSE default

\* str[:n]
StrHead(str, n) == SubSeq(str, 1, IF Len(str) < n THEN Len(str) ELSE n)

HealthInsights(health_index, one_liner, good_habits, bad_habits, lacking,
               best_dishes, worst_dishes, narrative, nutrient_levels) ==
    [health_index |-> health_index, one_liner |-> one_liner,
     good_habits |-> good_habits, bad_habits |-> bad_habits,
     lacking |-> lacking, best_dishes |-> best_dishes,
     worst_dishes |-> worst_dishes, narrative |-> narrative,
     nutrient_levels |-> nutrient_levels]

\* The report without a client (lines 300 to 311) and the report of both
\* except clauses (lines 419 to 446).
UnconfiguredInsights(health_index) ==
    HealthInsights(health_index, "Health analysis requires AI configuration",
                   <<>>, <<>>, <<"Unable to analyze without AI">>, <<>>, <<>>,
                   "Configure Anthropic API key for detailed insights.", <<>>)
PartialInsights(health_index) ==
    HealthInsights(health_index, "Analysis partially available",
                   <<>>, <<>>, <<>>, <<>>, <<>>, "", <<>>)

\* None
NoInsights == [none |-> TRUE]

\* The report that takes the index from the reply of the oracle.
InsightsOfReplyTrusting(health_index, reply) ==
    IF reply.kind = "raise" THEN PartialInsights(health_index)
    ELSE IF reply.json # "object" THEN PartialInsights(health_index)
    ELSE LET data == reply.data
         IN  HealthInsights(Get(data, "health_index", health_index),
                 StrHead(Get(data, "one_liner", ""), 80),
                 Get(data, "good_habits", <<>>),
                 Get(data, "bad_habits", <<>>),
                 Get(data, "lacking", <<>>),
                 Get(data, "best_dishes", <<>>),
                 Get(data, "worst_dishes", <<>>),
                 Get(data, "narrative", ""),
                 Get(data, "nutrient_levels", <<>>))

\* Lines 313 to 446, from the call of the oracle on.  The reply is the
\* text after the removal of the code fences: the call raised; the text is
\* not JSON (JSONDecodeError); it is JSON but not an object (data.get
\* raises); or it is an object, whose health_index is not read.
InsightsOfReply(health_index, reply) ==
    IF reply.kind = "raise" THEN PartialInsights(health_index)
    ELSE IF reply.json # "object" THEN PartialInsights(health_index)
    ELSE LET data == reply.data
         IN  HealthInsights(health_index,
                 StrHead(Get(data, "one_liner", ""), 80),
                 Get(data, "good_habits", <<>>),
                 Get(data, "bad_habits", <<>>),
                 Get(data, "lacking", <<>>),
                 Get(data, "best_dishes", <<>>),
                 Get(data, "worst_dishes", <<>>),
                 Get(data, "narrative", ""),
                 Get(data, "nutrient_levels", <<>>))

\* generate_health_insights: None for an empty history.
generate_health_insights(dishes, late_pct, avg_calories, client, reply) ==
    IF dishes = <<>> THEN NoInsights
    ELSE LET health_index ==
                 compute_health_index(dishes, late_pct, avg_calories)
         IN  IF ~client THEN UnconfiguredInsights(health_index)
             ELSE InsightsOfReply(health_index, reply)

\* ------------------------------------------------------------------------
\* Summary response and insights cache (calendar.py, lines 260 to 410)
\* ------------------------------------------------------------------------

\* No row of health_insights_cache for the user, and a row.
NoCached == [none |-> TRUE]
HealthInsightsCache(cache_data, last_order_count) ==
    [health_insights_json |-> cache_data,
     last_order_count |-> last_order_count]

\* An entry of nutrient_levels is a JSON object or another JSON value.
\* NutrientLevel(**n) on the cached path raises for an entry that is not
\* an object (line 282).
CacheParses(cached_data) ==
    \A k \in 1..Len(cached_data.nutrient_levels) :
        cached_data.nutrient_levels[k].dict

\* Lines 341 to 349: an entry that is not an object becomes its text with
\* the level "medium".
NutrientLevels(nutrient_levels) ==
    [k \in 1..Len(nutrient_levels) |->
        IF nutrient_levels[k].dict
        THEN [name |-> Get(nutrient_levels[k], "name", ""),
              level |-> Get(nutrient_levels[k], "level", "medium")]
        ELSE [name |-> nutrient_levels[k].text, level |-> "medium"]]

\* The response: health_insights and daily_health_scores (None when
\* has_scores is FALSE), and the two counters late_night_order_pct is
\* computed from.  failed is the request that ends in an exception.
SummaryResponse(health_insights, has_scores, daily_health_scores, all_orders) ==
    [failed |-> FALSE, health_insights |-> health_insights,
     has_scores |-> has_scores, daily_health_scores |-> daily_health_scores,
     late_night_count |-> late_night_count(all_orders),
     orders_with_time |-> orders_with_time(all_orders)]
ServerError == [failed |-> TRUE]

\* Lines 276 to 302: the cached report, with the daily scores recomputed
\* from the cached index.
CachedSummary(cached, all_orders, daily) ==
    LET cached_data == cached.health_insights_json
    IN  SummaryResponse(
            [cached_data EXCEPT
                !.nutrient_levels = NutrientLevels(@)],
            TRUE,
            calculate_daily_health_scores(daily, cached_data.health_index),
            all_orders)

\* Lines 339 to 396, for the insights of the service.  Without insights
\* nothing is cached.  After a cache parse error cached is None, a second
\* row for the user is added, and the commit fails on the unique user_id.
ServeInsights(insights, cached, parse_error, all_orders, daily) ==
    IF insights = NoInsights
    THEN [resp |-> SummaryResponse(NoInsights, FALSE, <<>>, all_orders),
          cached |-> cached, path |-> "empty"]
    ELSE IF parse_error
    THEN [resp |-> ServerError, cached |-> cached, path |-> "failed"]
    ELSE [resp |-> SummaryResponse(
              [insights EXCEPT !.nutrient_levels = NutrientLevels(@)],
              TRUE,
              calculate_daily_health_scores(daily, insights.health_index),
              all_orders),
          cached |-> HealthInsightsCache(insights, Len(all_orders)),
          path |-> "generated"]

\* Lines 307 to 337: a new report is asked of the service.
FreshSummary(cached, parse_error, all_orders, daily, client, reply) ==
    ServeInsights(
        generate_health_insights(
            dishes_with_frequency(dish_counts(all_orders, <<>>)),
            late_night_order_pct(all_orders), avg_daily_calories(daily),
            client, reply),
        cached, parse_error, all_orders, daily)

\* Lines 260 to 307, on all_orders and daily_orders as the loop over the
\* months leaves them.
SummaryOf(all_orders, daily, cached, client, reply) ==
    IF Len(all_orders) = 0
    THEN [resp |-> SummaryResponse(NoInsights, FALSE, <<>>, all_orders),
          cached |-> cached, path |-> "empty"]
    ELSE IF /\ cached # NoCached
            /\ cached.last_order_count = Len(all_orders)
            /\ CacheParses(cached.health_insights_json)
    THEN [resp |-> CachedSummary(cached, all_orders, daily),
          cached |-> cached, path |-> "cached"]
    ELSE FreshSummary(cached,
                      /\ cached # NoCached
                      /\ cached.last_order_count = Len(all_orders),
                      all_orders, daily, client, reply)

\* get_summary: the response, the cache row after the request, and the
\* branch taken (no report, the cached report, a generated report, or the
\* failed commit).
Summary(rows, now, cached, client, reply) ==
    SummaryOf(AllOrders(rows, now, 1),
              SummaryDailyOrders(AllOrders(rows, now, 1), <<>>),
              cached, client, reply)

\* ------------------------------------------------------------------------
\* Calorie number of a text (calorie_lookup.py, _extract_calorie_number)
\* ------------------------------------------------------------------------

\* The character at position i of text, "" past its end.
CharAt(text, i) == IF i >= 1 /\ i <= Len(text) THEN SubSeq(text, i, i) ELSE ""
IsDigit(c) == c \in {"0", "1", "2", "3", "4", "5", "6", "7", "8", "9"}
IsSpace(c) == c \in {" ", "\t", "\n"}

\* \d+ on the whole of str.
IsDigits(str) ==
    Len(str) > 0 /\ \A k \in 1..Len(str) : IsDigit(CharAt(str, k))

\* \d+(?:,\d+)? on the whole of str, and \d+(?:,\d+)?(?:\.\d+)?
IsGroupedNumber(str) ==
    \/ IsDigits(str)
    \/ \E k \in 2..Len(str) - 1 :
          /\ CharAt(str, k) = ","
          /\ IsDigits(SubSeq(str, 1, k - 1))
          /\ IsDigits(SubSeq(str, k + 1, Len(str)))
IsDecimalNumber(str) ==
    \/ IsGroupedNumber(str)
    \/ \E k \in 2..Len(str) - 1 :
          /\ CharAt(str, k) = "."
          /\ IsGroupedNumber(SubSeq(str, 1, k - 1))
          /\ IsDigits(SubSeq(str, k + 1, Len(str)))

\* text[i:] starts with word, whatever the case (re.IGNORECASE).
StartsWithAt(text, i, word) ==
    /\ i + Len(word) - 1 <= Len(text)
    /\ StrLower(SubSeq(text, i, i + Len(word) - 1)) = word

\* The position after \s* read from i (after [:\s]* with colons).
RECURSIVE SkipSpaces(_, _, _)
SkipSpaces(text, i, colons) ==
    IF IsSpace(CharAt(text, i)) \/ (colons /\ CharAt(text, i) = ":")
    THEN SkipSpaces(text, i + 1, colons) ELSE i

\* \s*(?:kcal|calories|cal) matches at i.
UnitAt(text, i) ==
    LET u == SkipSpaces(text, i, FALSE)
    IN  StartsWithAt(text, u, "kcal") \/ StartsWithAt(text, u, "calories")
            \/ StartsWithAt(text, u, "cal")

\* float(group.replace(",", "")), as the fraction num / den.
RECURSIVE DigitsValue(_, _)
DigitsValue(str, acc) ==
    IF Len(str) = 0 THEN acc
    ELSE LET c == CharAt(str, 1)
             d == CHOOSE n \in 0..9 :
                      c = CharAt("0123456789", n + 1)
         IN  DigitsValue(SubSeq(str, 2, Len(str)), 10 * acc + d)
RECURSIVE WithoutCommas(_)
WithoutCommas(str) ==
    IF Len(str) = 0 THEN ""
    ELSE (IF CharAt(str, 1) = "," THEN "" ELSE CharAt(str, 1))
             \o WithoutCommas(SubSeq(str, 2, Len(str)))
RECURSIVE PowerOfTen(_)
PowerOfTen(n) == IF n = 0 THEN 1 ELSE 10 * PowerOfTen(n - 1)
Float(group) ==
    LET str == WithoutCommas(group)
        dots == {k \in 1..Len(str) : CharAt(str, k) = "."}
    IN  IF dots = {} THEN [num |-> DigitsValue(str, 0), den |-> 1]
        ELSE LET k == CHOOSE k \in dots : TRUE
             IN  [num |-> DigitsValue(SubSeq(str, 1, k - 1)
                                          \o SubSeq(str, k + 1, Len(str)), 0),
                  den |-> PowerOfTen(Len(str) - k)]

\* No match, and the match of a pattern: where it starts and its groups.
NoMatch == [found |-> FALSE]
Match(start, groups) == [found |-> TRUE, start |-> start, groups |-> groups]

\* The leftmost of a set of matches with different starts.
Leftmost(matches) ==
    IF matches = {} THEN NoMatch
    ELSE CHOOSE m \in matches : \A n \in matches : m.start <= n.start

\* re.search of the first pattern: a number, then the unit.  The number
\* ends where the blanks or the unit begin, so a start has one match.
SearchNumberUnit(text) ==
    Leftmost({Match(p[1], <<SubSeq(text, p[1], p[2])>>) :
        p \in {q \in (1..Len(text)) \X (1..Len(text)) :
                  /\ q[1] <= q[2]
                  /\ IsDecimalNumber(SubSeq(text, q[1], q[2]))
                  /\ UnitAt(text, q[2] + 1)}})

\* The end of the longest number that starts at p (the groups are greedy).
LongestNumberEnds(text, p) ==
    {j \in p..Len(text) :
        /\ IsDecimalNumber(SubSeq(text, p, j))
        /\ \A e \in j + 1..Len(text) : ~IsDecimalNumber(SubSeq(text, p, e))}

\* re.search of the second pattern: the unit, colons and blanks, then the
\* number.
AfterUnit(text, i) ==
    SkipSpaces(text,
               IF StartsWithAt(text, i, "calories") THEN i + 8 ELSE i + 4,
               TRUE)
SearchUnitNumber(text) ==
    Leftmost(UNION {
        {Match(i, <<SubSeq(text, AfterUnit(text, i), j)>>) :
            j \in LongestNumberEnds(text, AfterUnit(text, i))} :
        i \in {i \in 1..Len(text) :
                  StartsWithAt(text, i, "calories")
                      \/ StartsWithAt(text, i, "kcal")}})

\* re.search of the third pattern: a number, a hyphen between optional
\* blanks, a number, then the unit.
AfterHyphen(text, j) ==
    LET h == SkipSpaces(text, j + 1, FALSE)
    IN  IF CharAt(text, h) = "-" THEN SkipSpaces(text, h + 1, FALSE) ELSE 0
SearchRange(text) ==
    Leftmost(UNION {
        {Match(p[1], <<SubSeq(text, p[1], p[2]),
                       SubSeq(text, AfterHyphen(text, p[2]), j)>>) :
            j \in {j \in AfterHyphen(text, p[2])..Len(text) :
                      /\ AfterHyphen(text, p[2]) > 0
                      /\ IsGroupedNumber(
                             SubSeq(text, AfterHyphen(text, p[2]), j))
                      /\ UnitAt(text, j + 1)}} :
        p \in {q \in (1..Len(text)) \X (1..Len(text)) :
                  /\ q[1] <= q[2]
                  /\ IsGroupedNumber(SubSeq(text, q[1], q[2]))}})

\* None, and a float.
NoNumber == [found |-> FALSE]
Number(value) == [found |-> TRUE, value |-> value]

\* (low + high) / 2
Midpoint(low, high) ==
    [num |-> low.num * high.den + high.num * low.den,
     den |-> 2 * low.den * high.den]

\* The result for a match: two groups are a range.
NumberOfMatch(match) ==
    IF Len(match.groups) = 2
    THEN Number(Midpoint(Float(match.groups[1]), Float(match.groups[2])))
    ELSE Number(Float(match.groups[1]))

\* The loop over the patterns: the first one that matches gives the result.
extract_calorie_number(text) ==
    IF SearchNumberUnit(text).found
    THEN NumberOfMatch(SearchNumberUnit(text))
    ELSE IF SearchUnitNumber(text).found
    THEN NumberOfMatch(SearchUnitNumber(text))
    ELSE IF SearchRange(text).found
    THEN NumberOfMatch(SearchRange(text))
    ELSE NoNumber

\* ------------------------------------------------------------------------
\* Inputs of the scoring engine
\* ------------------------------------------------------------------------

\* Dish names: healthy preparation with fried, with a dessert; desserts,
\* with fried; fried; a healthy staple; the other categories; "egg" inside
\* "Veggie"; no keyword; the empty name; blanks and capitals.
DishNames ==
    {"Grilled Fried Chicken Salad", "Baked Cheesecake", "Chocolate Brownie",
     "Fried Ice Cream", "French Fries", "Dal Tadka", "Chicken Biryani",
     "Butter Naan", "Veggie Feast", "Margherita", "", "  IDLI "}

\* Restaurant names: none, no chain, chains with floors C, D and E, and a
\* name that holds two chain identifiers.
RestaurantNames ==
    {"", "Udupi Grand", "Pizza Hut", "KFC", "Baskin Robbins", "Subway",
     "KFC Pizza Hut Food Court"}

\* Dish histories: up to MaxHistory entries, one dish name per category,
\* counts that include 0.
MaxHistory == 2
HistoryNames ==
    {"Dal Tadka", "Chicken Biryani", "Butter Naan", "French Fries",
     "Chocolate Brownie"}
Counts == {0, 3, 5}
FreqDishes == {FreqDish(n, c, "") : n \in HistoryNames, c \in Counts}
Histories == UNION {[1..n -> FreqDishes] : n \in 0..MaxHistory}
\* The late-night percentage and the average daily calories of a call:
\* neither penalty, each threshold met exactly, each exceeded.
PenaltyInputs ==
    {<<0, 2000>>, <<20, 2500>>, <<21, 2500>>, <<20, 2501>>, <<21, 2501>>}

\* Days: up to MaxOrders orders, each at noon or late at night, with dish
\* lists in which a fried dish and a dessert come in either order; alone or
\* followed by a second day.
MaxOrders == 2
DishLists ==
    {<<>>, <<"Dal Tadka">>, <<"French Fries">>,
     <<"French Fries", "Chocolate Brownie">>,
     <<"Chocolate Brownie", "French Fries">>,
     <<"Dal Tadka", "Chocolate Brownie">>}
DayOrders ==
    {DayOrder(400, d, 13, "") : d \in DishLists}
        \cup {DayOrder(1200, d, 23, "") : d \in DishLists}
DayOrderLists == UNION {[1..n -> DayOrders] : n \in 1..MaxOrders}
SecondDay == Day("2026-01-13", <<DayOrder(400, <<"Dal Tadka">>, 13, "")>>)
DailyOrders ==
    {<<>>} \cup {<<Day("2026-01-12", o)>> : o \in DayOrderLists}
           \cup {<<Day("2026-01-12", o), SecondDay>> : o \in DayOrderLists}
BaseIndexes == {6, 50, 100}

\* ------------------------------------------------------------------------
\* Inputs of the summary
\* ------------------------------------------------------------------------

\* The orders a sync may store, each from one message: an order without a
\* parsed time (midnight) and a late one on the same day, the second from a
\* chain with a floor; an order of the month before, on an earlier date; an
\* order of the sixth month back; an order of the current month.
S_midnight ==
    StoredOrder(Stamp(2026, 1, 12, 0, 0), "Udupi Grand", 400,
                <<StoredDish("Dal Tadka", 1)>>)
S_late ==
    StoredOrder(Stamp(2026, 1, 12, 23, 10), "Pizza Hut", 1200,
                <<StoredDish("Dal Tadka", 1), StoredDish(" dal tadka ", 2)>>)
S_december ==
    StoredOrder(Stamp(2025, 12, 30, 13, 0), "Udupi Grand", 800,
                <<StoredDish("French Fries", 2)>>)
S_august ==
    StoredOrder(Stamp(2025, 8, 5, 13, 0), "Udupi Grand", NoCal,
                <<StoredDish("Chocolate Brownie", 1)>>)
S_february ==
    StoredOrder(Stamp(2026, 2, 3, 13, 0), "Udupi Grand", 500,
                <<StoredDish("Dal Tadka", 1)>>)
SummaryOrders == {S_midnight, S_late, S_december, S_august, S_february}

\* The replies of the oracle: the call raises; text that is not JSON; a
\* JSON list; an object with another health_index; an object without most
\* keys, with a long one_liner and a nutrient level that is not an object.
R_raise == [kind |-> "raise"]
R_malformed == [kind |-> "text", json |-> "malformed"]
R_list == [kind |-> "text", json |-> "list"]
R_object ==
    [kind |-> "text", json |-> "object",
     data |-> [health_index |-> 99, one_liner |-> "Balanced, keep going",
               good_habits |-> <<[item |-> "Protein", detail |-> "Dal Tadka"]>>,
               bad_habits |-> <<[item |-> "Fried foods",
                                 detail |-> "French Fries"]>>,
               lacking |-> <<"Fiber", "Fruits">>,
               best_dishes |-> <<"Dal Tadka">>,
               worst_dishes |-> <<"French Fries">>,
               narrative |-> "You order dal often.",
               nutrient_levels |-> <<[dict |-> TRUE, name |-> "Protein",
                                      level |-> "high"]>>]]
R_sparse ==
    [kind |-> "text", json |-> "object",
     data |-> [one_liner |->
                   "Your orders lean on lentils and rice with fried sides on most weekends, and little fruit",
               nutrient_levels |-> <<[dict |-> FALSE, text |-> "Protein"]>>]]
Replies == {R_raise, R_malformed, R_list, R_object, R_sparse}

\* The month of the first request, and how many months may pass.
FirstNow == [year |-> 2026, month |-> 2]
MaxMonths == 1
MaxStored == 2

\* ------------------------------------------------------------------------
\* Inputs of the calorie number
\* ------------------------------------------------------------------------

\* Answer and snippet texts: a lead, a single number or a range, with or
\* without a blank, and a unit or none.
CalorieLeads == {"", "about ", "Calories: "}
CalorieFigures ==
    {"250", "1,200", "12.5", "300-400", "300 - 400", "1,000-1,200"}
CalorieUnits == {"", "kcal", " Calories", " cal", " kJ"}
CalorieTexts ==
    {lead \o figure \o unit :
        lead \in CalorieLeads, figure \in CalorieFigures,
        unit \in CalorieUnits}

\* ------------------------------------------------------------------------
\* State
\* ------------------------------------------------------------------------

VARIABLES
    ex,           \* one extraction: the message, the client flag, its outcome
    settings,     \* which API keys are configured
    cache,        \* the calorie_cache table, rows in insertion order
    orders,       \* the committed rows of the orders table, with their dishes
    sync_status,  \* _sync_status, per user
    queued,       \* background tasks added by POST /sync and not started yet
    run,          \* the process_emails runs, per slot
    running,      \* the run that holds the event loop, 0 when it is free
    posts,        \* POST /sync requests accepted so far
    insights,     \* health_insights_cache: last_order_count per user, 0 for no row
    mk,           \* the markup pass run on one message at two moments
    hs,           \* one call of the scoring engine: its arguments and result
    sm,           \* the summary: orders rows, clock, cache row, last response
    cn            \* one text searched for a calorie number, and the result

vars == <<ex, settings, cache, orders, sync_status, queued, run, running, posts,
          insights, mk, hs, sm, cn>>

Users == {1, 2}
Runs == {1, 2}

\* POST /sync requests in one behaviour.
MaxPosts == 2

Message(id, subject, body) == [id |-> id, subject |-> subject, body |-> body]

\* What gmail.fetch_swiggy_emails returns for each user.
Mailbox(u) ==
    IF u = 1
    THEN <<Message("m1", S_confirmed, B_pair), Message("m2", S_promo, B_empty)>>
    ELSE <<Message("m3", S_confirmed, B_elem)>>

NoStatus ==
    [status |-> "none", emails_processed |-> 0, orders_created |-> 0,
     errors |-> 0]

\* One call of get_calories: the sources consulted so far (each with whether
\* it went to the network and whether it found a value), what the call
\* returned, the length of the cache when it began and whether it wrote a row.
NoRes ==
    [state |-> "none", dish_name |-> <<>>, restaurant_name |-> <<>>,
     log |-> <<>>, out |-> NoFact, start_len |-> 0, wrote |-> FALSE]

IdleRun ==
    [pc |-> "idle", user |-> 0, emails |-> <<>>, i |-> 0,
     order_data |-> NoOrder, j |-> 0, total_calories |-> 0,
     has_estimates |-> FALSE, orders_created |-> 0, res |-> NoRes,
     work |-> <<>>]

\* No extraction under way.
ExIdle == [state |-> "idle", msg |-> Message("", <<>>, B_empty),
           client |-> FALSE, resp |-> LlmFailure("raise"),
           out |-> [order |-> NoOrder, passes |-> <<>>, reason |-> ""]]

NoCandidate == [ok |-> FALSE, restaurant_name |-> NoneName,
                order_date |-> NoDate, dishes |-> <<>>]

MkIdle == [state |-> "idle", subject |-> <<>>, body |-> B_empty,
           first |-> NoCandidate, second |-> NoCandidate,
           now1 |-> NoDate, now2 |-> NoDate]

\* No call of the scoring engine under way.
HsIdle == [op |-> "none", state |-> "idle"]

\* No summary request answered yet: the orders rows of the user, the month
\* of datetime.now(), the cache row, and the last request's oracle reply,
\* branch and response.
NoReply == [kind |-> "none"]
NoResponse == [failed |-> FALSE, none |-> TRUE]
SmIdle == [rows |-> <<>>, now |-> FirstNow, passed |-> 0, cached |-> NoCached,
           reply |-> NoReply, path |-> "none", resp |-> NoResponse]

\* No calorie text under way.
CnIdle == [state |-> "idle"]

Settings(api_ninjas_key, serpapi_key, anthropic_api_key) ==
    [api_ninjas_key |-> api_ninjas_key, serpapi_key |-> serpapi_key,
     anthropic_api_key |-> anthropic_api_key]

\* The deployments considered: every key set, and no key at all.
SettingsSet == {Settings(TRUE, TRUE, TRUE), Settings(FALSE, FALSE, FALSE)}

Init ==
    /\ ex = ExIdle
    /\ settings \in SettingsSet
    /\ cache = <<>>
    /\ orders = <<>>
    /\ sync_status = [u \in Users |-> NoStatus]
    /\ queued = <<>>
    /\ run = [r \in Runs |-> IdleRun]
    /\ running = 0
    /\ posts = 0
    /\ insights = [u \in Users |-> 0]
    /\ mk = MkIdle
    /\ hs = HsIdle
    /\ sm = SmIdle
    /\ cn = CnIdle

\* ------------------------------------------------------------------------
\* The session of a run (sync.py: db = SessionLocal())
\* ------------------------------------------------------------------------

OrderRow(email_id, user_id, restaurant_name) ==
    [email_id |-> email_id, user_id |-> user_id,
     restaurant_name |-> restaurant_name, dishes |-> <<>>,
     total_calories |-> NoCal, has_estimates |-> FALSE]

WriteRow(rows, o) ==
    IF \E k \in 1..Len(rows) : rows[k].email_id = o.email_id
    THEN [k \in 1..Len(rows) |->
            IF rows[k].email_id = o.email_id THEN o ELSE rows[k]]
    ELSE Append(rows, o)

\* db.commit(): every order the session holds is written as it stands, with
\* the dishes added to it so far.
RECURSIVE Commit(_, _)
Commit(rows, work) ==
    IF work = <<>> THEN rows
    ELSE Commit(WriteRow(rows, Head(work)), Tail(work))

\* The query that sees only the orders the session itself has flushed.
OrderExistsInSession(r, id) ==
    \E k \in 1..Len(run[r].work) : run[r].work[k].email_id = id

\* db.query(Order).filter(Order.email_id == id).first(), as the session of
\* run r sees the table: the committed rows and its own flushed ones.
OrderExists(r, id) ==
    \/ \E k \in 1..Len(orders) : orders[k].email_id = id
    \/ \E k \in 1..Len(run[r].work) : run[r].work[k].email_id = id

\* Another session holds an uncommitted order with this message id: the
\* INSERT of a second one cannot go through.
PendingElsewhere(r, id) ==
    \E q \in Runs \ {r} :
        \E k \in 1..Len(run[q].work) :
            /\ run[q].work[k].email_id = id
            /\ \A m \in 1..Len(orders) : orders[m].email_id # id

\* The except clause of process_emails records the error in the status.
StatusError(st) == [st EXCEPT !.status = "error", !.errors = @ + 1]

\* What a run leaves behind when it ends: how it ended, and whether a call of
\* get_calories raised.
Ended(rec, pc) ==
    [IdleRun EXCEPT !.pc = pc,
                    !.res = IF rec.res.state = "raised"
                            THEN [NoRes EXCEPT !.state = "raised"]
                            ELSE NoRes]

RunEnded(r) == run[r].pc \in {"idle", "completed", "error"}

\* The run fails with an exception that reaches the except clause.
Fail(r, rec) ==
    /\ run' = [run EXCEPT ![r] = Ended(rec, "error")]
    /\ sync_status' = [sync_status EXCEPT ![run[r].user] = StatusError(@)]
    /\ running' = 0

\* ------------------------------------------------------------------------
\* get_calories (calorie_lookup.py)
\* ------------------------------------------------------------------------

LogEntry(src, net, hit) == [src |-> src, net |-> net, hit |-> hit]

\* A mutant of AfterSource: a source that found a value does not end the call.
AfterSourceNoReturn(src, hit) ==
    CASE src = "cache" -> "ninjas"
      [] src = "ninjas" -> "web"
      [] src = "web" -> "llm"
      [] OTHER -> "resolved"

\* Where get_calories goes after a source: it returns when the source found
\* a value, and tries the next source otherwise.
AfterSource(src, hit) ==
    IF hit THEN "resolved"
    ELSE CASE src = "cache" -> "ninjas"
           [] src = "ninjas" -> "web"
           [] src = "web" -> "llm"
           [] OTHER -> "resolved"

\* A mutant of ShouldSave: the result of the last source is saved whatever
\* it is.
ShouldSaveAlways(fact) == TRUE

\* `if estimated:` and its like: only a result that was found is saved.
ShouldSave(fact) == fact.some

\* The call after a source answered: the source logged, the result kept when
\* it found one (the terminal fallback after the last source).
Answered(rec, src, net, fact, wrote) ==
    LET to == AfterSource(src, fact.some)
    IN  [rec EXCEPT
           !.pc = to,
           !.res.log = Append(@, LogEntry(src, net, fact.some)),
           !.res.state = IF to = "resolved" THEN "returned" ELSE @,
           !.res.out = IF fact.some THEN fact
                       ELSE IF to = "resolved" /\ ~rec.res.out.some THEN NullFact
                       ELSE @,
           !.res.wrote = @ \/ wrote]

\* The cache lookup raised: the exception leaves get_calories.
RaisedRead(rec) ==
    [rec EXCEPT !.res.log = Append(@, LogEntry("cache", FALSE, FALSE)),
                !.res.state = "raised"]

\* The cache write raised, likewise.
RaisedWrite(rec) == [rec EXCEPT !.res.state = "raised"]

\* A source answered with `fact`; a value found is written to the cache
\* before it is returned, and db.commit() in _save_to_cache commits the
\* session of the run with it.  db_ok: the store takes the write.
SourceAnswered(r, src, net, fact, db_ok) ==
    IF ShouldSave(fact)
    THEN IF db_ok
         THEN /\ cache' = save_to_cache(cache,
                    CacheRow(run[r].res.dish_name, run[r].res.restaurant_name,
                             fact.calories, fact.source_url, fact.is_estimated))
              /\ orders' = Commit(orders, run[r].work)
              /\ run' = [run EXCEPT ![r] = Answered(run[r], src, net, fact, TRUE)]
              /\ running' = r
              /\ UNCHANGED sync_status
         ELSE /\ Fail(r, RaisedWrite(Answered(run[r], src, net, fact, FALSE)))
              /\ UNCHANGED <<cache, orders>>
    ELSE /\ run' = [run EXCEPT ![r] = Answered(run[r], src, net, fact, FALSE)]
         /\ running' = r
         /\ UNCHANGED <<cache, orders, sync_status>>

\* The start of get_calories for dish j of the order: the cache lookup.
ResolveDish(r) ==
    /\ running = r
    /\ run[r].pc = "dish"
    /\ run[r].j <= Len(run[r].order_data.dishes)
    /\ LET d == run[r].order_data.dishes[run[r].j]
           rec == [run[r] EXCEPT !.res =
                     [NoRes EXCEPT !.state = "active",
                                   !.dish_name = d.name,
                                   !.restaurant_name = run[r].order_data.restaurant_name,
                                   !.start_len = Len(cache)]]
       IN  IF d.name = MissingName
           THEN Fail(r, run[r])
           ELSE \E db_ok \in BOOLEAN :
                  IF db_ok
                  THEN /\ run' = [run EXCEPT ![r] =
                             Answered(rec, "cache", FALSE,
                                      check_cache(cache, d.name,
                                                  rec.res.restaurant_name),
                                      FALSE)]
                       /\ UNCHANGED <<sync_status, running>>
                  ELSE Fail(r, RaisedRead(rec))
    /\ UNCHANGED <<ex, settings, cache, orders, queued, posts, insights, mk, hs, sm, cn>>

\* _lookup_api_ninjas: None at once without a key, else the request is sent
\* and the run is suspended until the response is there.
CallNinjas(r) ==
    /\ running = r
    /\ run[r].pc = "ninjas"
    /\ IF settings.api_ninjas_key
       THEN /\ run' = [run EXCEPT ![r].pc = "ninjas_wait"]
            /\ running' = 0
       ELSE /\ run' = [run EXCEPT ![r] = Answered(run[r], "ninjas", FALSE, NoFact, FALSE)]
            /\ UNCHANGED running
    /\ UNCHANGED <<ex, settings, cache, orders, sync_status, queued, posts, insights, mk, hs, sm, cn>>

NinjasReply(r) ==
    /\ running = 0
    /\ run[r].pc = "ninjas_wait"
    /\ \E resp \in NinjasResponses, db_ok \in BOOLEAN :
          SourceAnswered(r, "ninjas", TRUE, lookup_api_ninjas(resp), db_ok)
    /\ UNCHANGED <<ex, settings, queued, posts, insights, mk, hs, sm, cn>>

\* _search_web, likewise.
CallWeb(r) ==
    /\ running = r
    /\ run[r].pc = "web"
    /\ IF settings.serpapi_key
       THEN /\ run' = [run EXCEPT ![r].pc = "web_wait"]
            /\ running' = 0
       ELSE /\ run' = [run EXCEPT ![r] = Answered(run[r], "web", FALSE, NoFact, FALSE)]
            /\ UNCHANGED running
    /\ UNCHANGED <<ex, settings, cache, orders, sync_status, queued, posts, insights, mk, hs, sm, cn>>

WebReply(r) ==
    /\ running = 0
    /\ run[r].pc = "web_wait"
    /\ \E resp \in SyncWebResponses, db_ok \in BOOLEAN :
          SourceAnswered(r, "web", TRUE, search_web(resp), db_ok)
    /\ UNCHANGED <<ex, settings, queued, posts, insights, mk, hs, sm, cn>>

\* _estimate_with_llm: None without a client; the client is synchronous, so
\* the run keeps the event loop during the call.
CallLlm(r) ==
    /\ running = r
    /\ run[r].pc = "llm"
    /\ IF settings.anthropic_api_key
       THEN \E resp \in LlmEstimateResponses, db_ok \in BOOLEAN :
               SourceAnswered(r, "llm", TRUE, estimate_with_llm(resp), db_ok)
       ELSE SourceAnswered(r, "llm", FALSE, NoFact, TRUE)
    /\ UNCHANGED <<ex, settings, queued, posts, insights, mk, hs, sm, cn>>

\* ------------------------------------------------------------------------
\* process_emails and POST /sync (sync.py)
\* ------------------------------------------------------------------------

\* sync_emails: a request made while the user's status is "processing" adds
\* no task; any other adds one, which Starlette starts after the response.
PostSync(u) ==
    /\ running = 0
    /\ posts < MaxPosts
    /\ IF sync_status[u].status = "processing"
       THEN UNCHANGED <<queued, posts>>
       ELSE /\ queued' = Append(queued, u)
            /\ posts' = posts + 1
    /\ UNCHANGED <<ex, settings, cache, orders, sync_status, run, running, insights, mk, hs, sm, cn>>

FreeSlot(r) == RunEnded(r) /\ \A q \in Runs : RunEnded(q) => r <= q

\* process_emails up to the message loop: the status is reset; without the
\* user or the access token the run ends with status error and no error
\* text (lines 27 to 31); else the mailbox is fetched, which may raise
\* (lines 39 to 50).
StartRun(r) ==
    /\ running = 0
    /\ FreeSlot(r)
    /\ \E k \in 1..Len(queued) :
          LET u == queued[k]
          IN  /\ queued' = SubSeq(queued, 1, k - 1) \o SubSeq(queued, k + 1, Len(queued))
              /\ \E start \in {"fetched", "fetch raised", "no token"} :
                    IF start = "fetched"
                    THEN /\ sync_status' = [sync_status EXCEPT ![u] =
                               [status |-> "processing",
                                emails_processed |-> Len(Mailbox(u)),
                                orders_created |-> 0, errors |-> 0]]
                         /\ run' = [run EXCEPT ![r] =
                               [IdleRun EXCEPT !.pc = "loop", !.user = u,
                                               !.emails = Mailbox(u), !.i = 1]]
                         /\ running' = r
                    ELSE /\ sync_status' = [sync_status EXCEPT ![u] =
                               [status |-> "error", emails_processed |-> 0,
                                orders_created |-> 0,
                                errors |-> IF start = "fetch raised"
                                           THEN 1 ELSE 0]]
                         /\ run' = [run EXCEPT ![r] =
                               [IdleRun EXCEPT !.pc = "error"]]
                         /\ running' = 0
    /\ UNCHANGED <<ex, settings, cache, orders, posts, insights, mk, hs, sm, cn>>

AtEmail(r) ==
    /\ running = r
    /\ run[r].pc = "loop"
    /\ run[r].i <= Len(run[r].emails)

\* A message whose id already has an order is skipped.
SkipProcessed(r) ==
    /\ AtEmail(r)
    /\ OrderExists(r, run[r].emails[run[r].i].id)
    /\ run' = [run EXCEPT ![r].i = @ + 1]
    /\ UNCHANGED <<ex, settings, cache, orders, sync_status, queued, running, posts, insights, mk, hs, sm, cn>>

\* The exclusion filter and the parser on the next message; a message that
\* gives no order is skipped, for another the Order is added and flushed.
ParseEmail(r) ==
    /\ AtEmail(r)
    /\ ~OrderExists(r, run[r].emails[run[r].i].id)
    /\ \E resp \in SyncParseResponses, db_ok \in BOOLEAN :
          LET msg == run[r].emails[run[r].i]
              got == ExtractMessage(msg, settings.anthropic_api_key, resp)
          IN  IF ~got.order.ok
              THEN /\ run' = [run EXCEPT ![r].i = @ + 1]
                   /\ UNCHANGED <<sync_status, running>>
              ELSE IF db_ok /\ ~PendingElsewhere(r, msg.id)
              THEN /\ run' = [run EXCEPT
                          ![r].pc = "dish", ![r].order_data = got.order,
                          ![r].j = 1, ![r].total_calories = 0,
                          ![r].has_estimates = FALSE,
                          ![r].work = Append(@,
                              OrderRow(msg.id, run[r].user,
                                       got.order.restaurant_name))]
                   /\ UNCHANGED <<sync_status, running>>
              ELSE Fail(r, run[r])
    /\ UNCHANGED <<ex, settings, cache, orders, queued, posts, insights, mk, hs, sm, cn>>

DishRow(name, quantity, calories, is_estimated) ==
    [name |-> name, quantity |-> quantity, calories |-> calories,
     is_estimated |-> is_estimated]

AddDish(work, dish) ==
    [work EXCEPT ![Len(work)].dishes = Append(@, dish)]

\* The rest of the dish loop after get_calories returned: the Dish is added
\* and the totals updated.  dish_data["quantity"] raises for a dish without
\* the key, and calories * None raises.
RecordDish(r) ==
    /\ running = r
    /\ run[r].pc = "resolved"
    /\ LET d == run[r].order_data.dishes[run[r].j]
           info == run[r].res.out
           has == TruthyCal(info.calories)
       IN  IF d.quantity = MissingQty \/ (has /\ d.quantity = NoQty)
           THEN Fail(r, run[r])
           ELSE /\ run' = [run EXCEPT
                      ![r].pc = "dish",
                      ![r].res = NoRes,
                      ![r].j = @ + 1,
                      ![r].work = AddDish(@,
                          DishRow(d.name, d.quantity,
                                  IF has THEN info.calories * d.quantity ELSE NoCal,
                                  info.is_estimated)),
                      ![r].total_calories =
                          IF has THEN @ + info.calories * d.quantity ELSE @,
                      ![r].has_estimates = @ \/ info.is_estimated]
                /\ UNCHANGED <<sync_status, running>>
    /\ UNCHANGED <<ex, settings, cache, orders, queued, posts, insights, mk, hs, sm, cn>>

\* After the last dish: the totals of the order are set and it is counted.
CloseOrder(r) ==
    /\ running = r
    /\ run[r].pc = "dish"
    /\ run[r].j > Len(run[r].order_data.dishes)
    /\ run' = [run EXCEPT
          ![r].pc = "loop",
          ![r].i = @ + 1,
          ![r].orders_created = @ + 1,
          ![r].work = [@ EXCEPT
              ![Len(@)].total_calories =
                  IF run[r].total_calories > 0 THEN run[r].total_calories
                  ELSE NoCal,
              ![Len(@)].has_estimates = run[r].has_estimates]]
    /\ sync_status' = [sync_status EXCEPT
          ![run[r].user].orders_created = run[r].orders_created + 1]
    /\ UNCHANGED <<ex, settings, cache, orders, queued, running, posts, insights, mk, hs, sm, cn>>

UserOrders(rows, u) == Cardinality({k \in 1..Len(rows) : rows[k].user_id = u})

\* After the last message: db.commit(), the count of the user's orders, and
\* status completed.
FinishRun(r) ==
    /\ running = r
    /\ run[r].pc = "loop"
    /\ run[r].i > Len(run[r].emails)
    /\ \E db_ok \in BOOLEAN :
          IF db_ok
          THEN /\ orders' = Commit(orders, run[r].work)
               /\ sync_status' = [sync_status EXCEPT
                     ![run[r].user].status = "completed",
                     ![run[r].user].orders_created =
                         UserOrders(Commit(orders, run[r].work), run[r].user)]
               /\ run' = [run EXCEPT ![r] = Ended(run[r], "completed")]
               /\ running' = 0
          ELSE /\ Fail(r, run[r])
               /\ UNCHANGED orders
    /\ UNCHANGED <<ex, settings, cache, queued, posts, insights, mk, hs, sm, cn>>

\* GET /summary (calendar.py): the handler reads the user's orders in its own
\* session and, when there are orders and no report cached for that number
\* of them, generates a report and stores it in health_insights_cache;
\* generated = FALSE: the generation gave nothing, so nothing is stored.
get_summary(u) ==
    /\ running = 0
    /\ \E generated \in BOOLEAN :
          LET total_order_count == UserOrders(orders, u)
          IN  insights' = IF /\ total_order_count > 0
                            /\ insights[u] # total_order_count
                            /\ generated
                         THEN [insights EXCEPT ![u] = total_order_count]
                         ELSE insights
    /\ UNCHANGED <<ex, settings, cache, orders, sync_status, queued, run, running, posts, mk, hs, sm, cn>>

Next ==
    \/ \E u \in Users : PostSync(u)
    \/ \E u \in Users : get_summary(u)
    \/ \E r \in Runs : StartRun(r)
    \/ \E r \in Runs : SkipProcessed(r)
    \/ \E r \in Runs : ParseEmail(r)
    \/ \E r \in Runs : ResolveDish(r)
    \/ \E r \in Runs : CallNinjas(r)
    \/ \E r \in Runs : NinjasReply(r)
    \/ \E r \in Runs : CallWeb(r)
    \/ \E r \in Runs : WebReply(r)
    \/ \E r \in Runs : CallLlm(r)
    \/ \E r \in Runs : RecordDish(r)
    \/ \E r \in Runs : CloseOrder(r)
    \/ \E r \in Runs : FinishRun(r)

Spec == Init /\ [][Next]_vars

\* The steps of run r.  Starlette starts a task that was added, the event
\* loop resumes a coroutine that can go on, and every external call
\* returns or raises.
RunStep(r) ==
    \/ StartRun(r)
    \/ SkipProcessed(r)
    \/ ParseEmail(r)
    \/ ResolveDish(r)
    \/ CallNinjas(r)
    \/ NinjasReply(r)
    \/ CallWeb(r)
    \/ WebReply(r)
    \/ CallLlm(r)
    \/ RecordDish(r)
    \/ CloseOrder(r)
    \/ FinishRun(r)

SpecLive == Spec /\ \A r \in Runs : WF_vars(RunStep(r))

\* ------------------------------------------------------------------------
\* The extraction on its own: every subject and body of the vocabulary, with
\* and without an oracle client, and every completion of the oracle.
\* ------------------------------------------------------------------------

InitExtract ==
    /\ ex \in {[ExIdle EXCEPT !.state = "new", !.msg = Message("m", s, b),
                              !.client = c] :
                 s \in Subjects, b \in Bodies, c \in BOOLEAN}
    /\ settings = Settings(FALSE, FALSE, FALSE)
    /\ cache = <<>>
    /\ orders = <<>>
    /\ sync_status = [u \in Users |-> NoStatus]
    /\ queued = <<>>
    /\ run = [r \in Runs |-> IdleRun]
    /\ running = 0
    /\ posts = 0
    /\ insights = [u \in Users |-> 0]
    /\ mk = MkIdle
    /\ hs = HsIdle
    /\ sm = SmIdle
    /\ cn = CnIdle

\* The filter and the parser run on the message, as process_emails runs them
\* (sync.py, lines 60 to 67).
Extract ==
    /\ ex.state = "new"
    /\ \E resp \in LlmParseResponses :
          ex' = [ex EXCEPT !.state = "done", !.resp = resp,
                           !.out = ExtractMessage(ex.msg, ex.client, resp)]
    /\ UNCHANGED <<settings, cache, orders, sync_status, queued, run, running, posts, insights, mk, hs, sm, cn>>

NextExtract == Extract

SpecExtract == InitExtract /\ [][NextExtract]_vars

\* ------------------------------------------------------------------------
\* The markup pass on one (subject, body), run at two moments
\* ------------------------------------------------------------------------

InitMarkup ==
    /\ mk \in {[MkIdle EXCEPT !.state = "new", !.subject = s, !.body = b] :
                 s \in Subjects, b \in DatedBodies}
    /\ hs = HsIdle
    /\ ex = ExIdle
    /\ settings = Settings(FALSE, FALSE, FALSE)
    /\ cache = <<>>
    /\ orders = <<>>
    /\ sync_status = [u \in Users |-> NoStatus]
    /\ queued = <<>>
    /\ run = [r \in Runs |-> IdleRun]
    /\ running = 0
    /\ posts = 0
    /\ insights = [u \in Users |-> 0]
    /\ sm = SmIdle
    /\ cn = CnIdle

\* _parse_html on the message, at one reading of the clock.
MarkupFirst ==
    /\ mk.state = "new"
    /\ \E now \in Clock :
          mk' = [mk EXCEPT !.state = "once", !.now1 = now,
                           !.first = parse_html_dated(mk.body, mk.subject, now)]
    /\ UNCHANGED <<ex, settings, cache, orders, sync_status, queued, run, running, posts, insights, hs, sm, cn>>

\* _parse_html on the same message again, at a reading of the clock that
\* may differ.
MarkupSecond ==
    /\ mk.state = "once"
    /\ \E now \in Clock :
          mk' = [mk EXCEPT !.state = "twice", !.now2 = now,
                           !.second = parse_html_dated(mk.body, mk.subject, now)]
    /\ UNCHANGED <<ex, settings, cache, orders, sync_status, queued, run, running, posts, insights, hs, sm, cn>>

NextMarkup ==
    \/ MarkupFirst
    \/ MarkupSecond

SpecMarkup == InitMarkup /\ [][NextMarkup]_vars

\* ------------------------------------------------------------------------
\* The scoring engine, one call on given arguments
\* ------------------------------------------------------------------------

InitScore ==
    /\ hs \in {[op |-> "classify", state |-> "new", dish_name |-> n,
                restaurant_name |-> r, category |-> ""] :
                  n \in DishNames, r \in RestaurantNames}
           \cup {[op |-> "index", state |-> "new", dishes |-> h,
                  late_night_order_pct |-> p[1], avg_daily_calories |-> p[2],
                  dish_categories |-> <<>>, health_index |-> 0] :
                    h \in Histories, p \in PenaltyInputs}
           \cup {[op |-> "daily", state |-> "new", daily_orders |-> d,
                  base_health_index |-> b, results |-> <<>>] :
                    d \in DailyOrders, b \in BaseIndexes}
    /\ mk = MkIdle
    /\ ex = ExIdle
    /\ settings = Settings(FALSE, FALSE, FALSE)
    /\ cache = <<>>
    /\ orders = <<>>
    /\ sync_status = [u \in Users |-> NoStatus]
    /\ queued = <<>>
    /\ run = [r \in Runs |-> IdleRun]
    /\ running = 0
    /\ posts = 0
    /\ insights = [u \in Users |-> 0]
    /\ sm = SmIdle
    /\ cn = CnIdle

\* _classify_dish(dish_name, restaurant_name)
Classify ==
    /\ hs.op = "classify" /\ hs.state = "new"
    /\ hs' = [hs EXCEPT !.state = "done",
                        !.category = classify_dish(hs.dish_name,
                                                   hs.restaurant_name)]
    /\ UNCHANGED <<ex, settings, cache, orders, sync_status, queued, run, running, posts, insights, mk, sm, cn>>

\* compute_health_index(dishes, late_night_order_pct, avg_daily_calories)
ComputeIndex ==
    /\ hs.op = "index" /\ hs.state = "new"
    /\ hs' = [hs EXCEPT !.state = "done",
                        !.dish_categories = DishCategories(hs.dishes),
                        !.health_index =
                            compute_health_index(hs.dishes,
                                                 hs.late_night_order_pct,
                                                 hs.avg_daily_calories)]
    /\ UNCHANGED <<ex, settings, cache, orders, sync_status, queued, run, running, posts, insights, mk, sm, cn>>

\* calculate_daily_health_scores(daily_orders, base_health_index)
DailyScores ==
    /\ hs.op = "daily" /\ hs.state = "new"
    /\ hs' = [hs EXCEPT !.state = "done",
                        !.results =
                            calculate_daily_health_scores(
                                hs.daily_orders, hs.base_health_index)]
    /\ UNCHANGED <<ex, settings, cache, orders, sync_status, queued, run, running, posts, insights, mk, sm, cn>>

NextScore ==
    \/ Classify
    \/ ComputeIndex
    \/ DailyScores

SpecScore == InitScore /\ [][NextScore]_vars

\* ------------------------------------------------------------------------
\* Summary requests over a growing order table (SpecSummary)
\* ------------------------------------------------------------------------

InitSummary ==
    /\ ex = ExIdle
    /\ settings \in SettingsSet
    /\ cache = <<>>
    /\ orders = <<>>
    /\ sync_status = [u \in Users |-> NoStatus]
    /\ queued = <<>>
    /\ run = [r \in Runs |-> IdleRun]
    /\ running = 0
    /\ posts = 0
    /\ insights = [u \in Users |-> 0]
    /\ mk = MkIdle
    /\ hs = HsIdle
    /\ sm = SmIdle
    /\ cn = CnIdle

\* A sync run stores the order of one more message.
StoreOrder(o) ==
    /\ Len(sm.rows) < MaxStored
    /\ \A k \in 1..Len(sm.rows) : sm.rows[k] # o
    /\ sm' = [sm EXCEPT !.rows = Append(@, o), !.reply = NoReply,
                        !.path = "none", !.resp = NoResponse]
    /\ UNCHANGED <<ex, settings, cache, orders, sync_status, queued, run,
                   running, posts, insights, mk, hs, cn>>

\* datetime.now() reaches the next month.
PassMonth ==
    /\ sm.passed < MaxMonths
    /\ sm' = [sm EXCEPT !.now = MonthsAgo(@, -1), !.passed = @ + 1,
                        !.reply = NoReply, !.path = "none",
                        !.resp = NoResponse]
    /\ UNCHANGED <<ex, settings, cache, orders, sync_status, queued, run,
                   running, posts, insights, mk, hs, cn>>

\* The state after a request: its reply, branch and response, and the
\* cache row it leaves.
SummaryAnswered(s, reply, summary) ==
    [s EXCEPT !.cached = summary.cached, !.resp = summary.resp,
              !.path = summary.path, !.reply = reply]

\* GET /summary: the service has a client when the key is configured
\* (health_intelligence.py, lines 273 to 277); reply is what the oracle
\* returns if it is called.
GetSummary(reply) ==
    /\ sm' = SummaryAnswered(sm, reply,
                 Summary(sm.rows, sm.now, sm.cached,
                         settings.anthropic_api_key, reply))
    /\ UNCHANGED <<ex, settings, cache, orders, sync_status, queued, run,
                   running, posts, insights, mk, hs, cn>>

NextSummary ==
    \/ \E o \in SummaryOrders : StoreOrder(o)
    \/ PassMonth
    \/ \E reply \in Replies : GetSummary(reply)

SpecSummary == InitSummary /\ [][NextSummary]_vars

\* ------------------------------------------------------------------------
\* The calorie number of one text (SpecCalorieText)
\* ------------------------------------------------------------------------

InitCalorieText ==
    /\ cn \in {[state |-> "new", text |-> t, result |-> NoNumber] :
                  t \in CalorieTexts}
    /\ ex = ExIdle
    /\ settings = Settings(FALSE, FALSE, FALSE)
    /\ cache = <<>>
    /\ orders = <<>>
    /\ sync_status = [u \in Users |-> NoStatus]
    /\ queued = <<>>
    /\ run = [r \in Runs |-> IdleRun]
    /\ running = 0
    /\ posts = 0
    /\ insights = [u \in Users |-> 0]
    /\ mk = MkIdle
    /\ hs = HsIdle
    /\ sm = SmIdle

ExtractCalorieNumber ==
    /\ cn.state = "new"
    /\ cn' = [cn EXCEPT !.state = "done",
                        !.result = extract_calorie_number(cn.text)]
    /\ UNCHANGED <<ex, settings, cache, orders, sync_status, queued, run,
                   running, posts, insights, mk, hs, sm>>

NextCalorieText == ExtractCalorieNumber

SpecCalorieText == InitCalorieText /\ [][NextCalorieText]_vars

\* ------------------------------------------------------------------------
\* Properties of get_calories and of the calorie cache, under Spec
\* ------------------------------------------------------------------------

\* The order of the cascade.
CascadeOrder == <<"cache", "ninjas", "web", "llm">>

\* The rows among the first n of the cache that a lookup of (dish_name,
\* restaurant_name) selects from: those matching both names when a
\* restaurant is given and some row matches both, else those matching the
\* dish name.
Selected(n, dish_name, restaurant_name) ==
    LET rows == SubSeq(cache, 1, n)
    IN  IF /\ TruthyName(restaurant_name)
           /\ BothMatch(rows, dish_name, restaurant_name) # {}
        THEN BothMatch(rows, dish_name, restaurant_name)
        ELSE DishMatches(rows, dish_name)

\* The rows among the first n of the cache stored under exactly this key.
SameKey(n, dish_name, restaurant_name) ==
    {k \in 1..n : /\ cache[k].dish_name = dish_name
                  /\ cache[k].restaurant_name = restaurant_name}

\* C1: within one call of get_calories the sources are consulted in the
\* order cache, API Ninjas, web search, LLM; a source is consulted only when
\* every earlier one found nothing, and the call is at (or waiting for) a
\* source only when exactly the sources before it have been consulted.
C1_SourcesInOrder ==
    \A r \in Runs :
        LET log == run[r].res.log
        IN  /\ Len(log) <= 4
            /\ \A k \in 1..Len(log) :
                  /\ log[k].src = CascadeOrder[k]
                  /\ (k < Len(log) => ~log[k].hit)
            /\ (run[r].pc \in {"ninjas", "ninjas_wait"} =>
                   Len(log) = 1 /\ ~log[1].hit)
            /\ (run[r].pc \in {"web", "web_wait"} =>
                   Len(log) = 2 /\ ~log[2].hit)
            /\ (run[r].pc = "llm" => Len(log) = 3 /\ ~log[3].hit)

\* C1 witness: a call that the web search answered after the cache and API
\* Ninjas found nothing; the LLM was not consulted.
C1_Witness ==
    \E r \in Runs :
        /\ run[r].pc = "resolved"
        /\ Len(run[r].res.log) = 3
        /\ run[r].res.log[3].hit
        /\ run[r].res.log[3].src = "web"

C3_NullNeverCached ==
    /\ \A k \in 1..Len(cache) : cache[k].calories # NoCal
    /\ \A r \in Runs :
          LET res == run[r].res
          IN  /\ (res.state = "returned" /\ Len(res.log) = 4 /\ ~res.log[4].hit) =>
                     res.out = NullFact /\ ~res.wrote
              /\ (res.state = "returned" /\ res.log[Len(res.log)].hit) =>
                     res.out.some /\ res.out.calories # NoCal

\* C3 witness: the second dish of an order resolved to the null fact after the
\* whole cascade, the first dish of the same name having resolved to null
\* before it, with nothing cached.
C3_Witness ==
    \E r \in Runs :
        /\ run[r].pc = "resolved"
        /\ run[r].j = 2
        /\ run[r].order_data.dishes[1].name = run[r].order_data.dishes[2].name
        /\ run[r].work[Len(run[r].work)].dishes[1].calories = NoCal
        /\ Len(run[r].res.log) = 4
        /\ run[r].res.log[2].net
        /\ ~run[r].res.log[4].hit
        /\ run[r].res.out = NullFact
        /\ cache = <<>>

\* C4 as stated: no call of get_calories ends with an exception, whichever
\* collaborator fails, the cache store on read or on write included.
C4_ResolveNeverFails == \A r \in Runs : run[r].res.state # "raised"

C6_CacheAppendOnly ==
    [][/\ Len(cache') >= Len(cache)
       /\ SubSeq(cache', 1, Len(cache)) = cache]_vars

\* C6 witness: rows in the cache after a run that wrote some of them ended
\* in error and rolled back, and after a summary request stored a report.
C6_Witness ==
    /\ Len(cache) >= 2
    /\ \E r \in Runs : run[r].pc = "error"
    /\ \E u \in Users : insights[u] > 0

\* ------------------------------------------------------------------------
\* Properties of the extraction, under SpecExtract
\* ------------------------------------------------------------------------

\* C7: a message that the exclusion filter excludes or the bill gate reports
\* as not a bill gives no order, and neither pass is attempted on it.
C7_GateRejectsImmediately ==
    (/\ ex.state = "done"
     /\ \/ should_exclude(ex.msg.subject, BodyText(ex.msg.body))
        \/ ~is_bill_email(ex.msg.subject, BodyText(ex.msg.body))) =>
        /\ ~ex.out.order.ok
        /\ ex.out.passes = <<>>
        /\ ex.out.reason \in {"excluded", "not a bill"}

\* C7 witness: the promotion "50% OFF on your next order!" rejected, although a
\* client is configured and each pass would have given an order.
C7_Witness ==
    /\ ex.state = "done"
    /\ ex.msg.subject = S_promo
    /\ ex.client
    /\ LlmResultAccepted(parse_with_llm(ex.resp))
    /\ parse_html(ex.msg.body, ex.msg.subject).ok
    /\ ~ex.out.order.ok
    /\ ex.out.passes = <<>>

\* C8 as stated: every order the extraction returns has a non-empty
\* restaurant name and a non-empty dish list, whichever pass produced it.
C8_CandidateComplete ==
    (ex.state = "done" /\ ex.out.order.ok) =>
        /\ TruthyName(ex.out.order.restaurant_name)
        /\ ex.out.order.dishes # <<>>

\* C9 as stated: every dish of every order the extraction returns has a name
\* and an integer quantity of at least 1.
C9_LineItemsWellFormed ==
    (ex.state = "done" /\ ex.out.order.ok) =>
        \A k \in 1..Len(ex.out.order.dishes) :
            /\ TruthyName(ex.out.order.dishes[k].name)
            /\ ex.out.order.dishes[k].quantity >= 1

\* C10 as stated: the oracle pass runs first when a client is configured and
\* the markup pass after it; an oracle pass that raises, returns no JSON
\* object or fails validation (restaurant name and dish list non-empty) is
\* followed by the markup pass, whose outcome is returned; the first pass to
\* succeed gives the order, and no order is returned only when every pass
\* attempted has failed.
C10_PassOrder ==
    (/\ ex.state = "done"
     /\ ~should_exclude(ex.msg.subject, BodyText(ex.msg.body))
     /\ is_bill_email(ex.msg.subject, BodyText(ex.msg.body))) =>
        LET oracle == parse_with_llm(ex.resp)
            oracle_valid == /\ oracle.ok
                            /\ TruthyName(oracle.restaurant_name)
                            /\ oracle.dishes # <<>>
            markup == parse_html(ex.msg.body, ex.msg.subject)
        IN  IF ex.client /\ oracle_valid
            THEN ex.out.passes = <<"oracle">> /\ ex.out.order = oracle
            ELSE /\ ex.out.passes =
                      (IF ex.client THEN <<"oracle">> ELSE <<>>) \o <<"markup">>
                 /\ ex.out.order = markup
                 /\ (~ex.out.order.ok <=> ~markup.ok)

\* The markup pass found a date (a time) pattern in the body of mk.
DatePatternMatched ==
    \E p \in 1..Len(date_patterns) :
        ReSearch(date_patterns[p], BodyText(mk.body)) # NoneTok
TimePatternMatched ==
    \E p \in 1..Len(time_patterns) :
        ReSearch(time_patterns[p], BodyText(mk.body)) # NoneTok

\* C11: a candidate of the markup pass has a time of day other than 00:00
\* only if a time pattern matched in the body, and when neither a date nor a
\* time pattern matched its order date is at midnight and is not the reading
\* of the clock at extraction.
C11_MidnightSentinel ==
    (mk.state # "new" /\ mk.first.ok) =>
        /\ (mk.first.order_date.minute # 0 => TimePatternMatched)
        /\ (~DatePatternMatched /\ ~TimePatternMatched =>
                /\ mk.first.order_date.minute = 0
                /\ mk.first.order_date # mk.now1)

\* C12: two extractions of the same (subject, body) on the markup path, at
\* any two readings of the clock, give the same candidate: the same
\* restaurant name, order date and dishes in the same order.
C12_MarkupIdempotent ==
    mk.state = "twice" => mk.first = mk.second

\* A valid candidate as the data model has it: a non-empty restaurant name,
\* at least one line item, every item with a non-empty name and a quantity
\* of at least 1.
ValidCandidate(order) ==
    /\ order.ok
    /\ TruthyName(order.restaurant_name)
    /\ order.dishes # <<>>
    /\ \A k \in 1..Len(order.dishes) :
          /\ TruthyName(order.dishes[k].name)
          /\ order.dishes[k].name # MissingName
          /\ order.dishes[k].quantity >= 1

\* C13: a message that yields no valid candidate is never fatal to a sync
\* run: no step of the run that works on such a message's dishes ends the
\* run in error (the message is skipped and the run goes on).
C13_NoCandidateNeverFatal ==
    [][\A r \in Runs :
          (run[r].pc = "resolved" /\ ~ValidCandidate(run[r].order_data))
              => run'[r].pc # "error"]_vars

\* The name and the restaurant of the classification in hs, as
\* _classify_dish looks at them.
ClassifiedName == StrStrip(StrLower(hs.dish_name))
ClassifiedRestaurant == StrStrip(StrLower(hs.restaurant_name))
Classified == hs.op = "classify" /\ hs.state = "done"

\* The keyword sets by category, and the order in which the claim has them
\* looked at.
KeywordSets ==
    [A |-> CAT_A_KEYWORDS, B |-> CAT_B_KEYWORDS, C |-> CAT_C_KEYWORDS,
     D |-> CAT_D_KEYWORDS, E |-> CAT_E_KEYWORDS]
PriorityOrder == <<"E", "D", "A", "B", "C">>
MatchingSets ==
    {k \in 1..Len(PriorityOrder) :
        AnyIn(KeywordSets[PriorityOrder[k]], ClassifiedName)}

C15_NeverBetterThanAnyFloor ==
    Classified =>
        /\ \A k \in FloorHits(ClassifiedRestaurant) :
              CATEGORY_ORDER[hs.category]
                  >= CATEGORY_ORDER[RESTAURANT_CATEGORY_FLOORS[k][2]]
        /\ CATEGORY_ORDER[hs.category]
              >= CATEGORY_ORDER[KeywordCategory(ClassifiedName)]

\* C16: a name without healthy-preparation keyword, from a restaurant that
\* matches no chain, gets the category of the first of the sets E, D, A, B, C
\* that it matches and C when it matches none; and every classification
\* gives exactly one of A..E.
C16_FirstMatchingSet ==
    Classified =>
        /\ hs.category \in Categories
        /\ (~AnyIn(healthy_preps, ClassifiedName)
            /\ FloorHits(ClassifiedRestaurant) = {}) =>
               IF MatchingSets = {} THEN hs.category = "C"
               ELSE \E k \in MatchingSets :
                       /\ \A m \in MatchingSets : k <= m
                       /\ hs.category = PriorityOrder[k]

\* A name that matches the sets E, D and C was classified E, and a name
\* that matches no set was classified C.
C16_Witness ==
    /\ Classified
    /\ ~AnyIn(healthy_preps, ClassifiedName)
    /\ FloorHits(ClassifiedRestaurant) = {}
    /\ {1, 2, 5} \subseteq MatchingSets
    /\ hs.category = "E"

Indexed == hs.op = "index" /\ hs.state = "done"
Scored == hs.op = "daily" /\ hs.state = "done"

\* C17: every index the scoring engine reports is an integer from 0 to 100:
\* the result of compute_health_index for every history (the empty one and
\* entries of count 0 too), late-night percentage and calorie average, and
\* the index of every day of calculate_daily_health_scores.
C17_IndexInRange ==
    /\ Indexed => hs.health_index \in 0..100
    /\ Scored => \A k \in 1..Len(hs.results) :
                    hs.results[k].health_index \in 0..100

\* An index that lies below 0 before it is clamped was reported as 0: a
\* history of desserts only, with both penalties.
C17_Witness ==
    /\ Indexed
    /\ TotalCount(hs.dish_categories) > 0
    /\ \A k \in 1..Len(hs.dish_categories) :
          hs.dish_categories[k].category = "E"
    /\ hs.late_night_order_pct > 20
    /\ hs.avg_daily_calories > 2500
    /\ hs.health_index = 0

\* The penalty the claim gives for the penalty inputs of hs.
ClaimedPenalty ==
    (IF hs.late_night_order_pct > 20 THEN 5 ELSE 0)
    + (IF hs.avg_daily_calories > 2500 THEN 5 ELSE 0)

ReplacedByE(dish_categories, k, amount) ==
    Append([dish_categories EXCEPT ![k].count = @ - amount],
           [name |-> "Chocolate Brownie", category |-> "E", count |-> amount])

\* C19: for the history and the penalty inputs of a computed index,
\* replacing any amount of the count of an entry classified A by the same
\* amount classified E gives an index that is not higher.
C19_MonotoneInSeverity ==
    Indexed =>
        \A k \in 1..Len(hs.dish_categories) :
            hs.dish_categories[k].category = "A" =>
                \A amount \in 1..hs.dish_categories[k].count :
                    IndexOfCategories(
                        ReplacedByE(hs.dish_categories, k, amount),
                        hs.late_night_order_pct, hs.avg_daily_calories)
                        <= hs.health_index

\* An index was computed for a history with count classified A, and moving
\* part of that count to E gives a strictly lower index.
C19_Witness ==
    /\ Indexed
    /\ \E k \in 1..Len(hs.dish_categories) :
          /\ hs.dish_categories[k].category = "A"
          /\ hs.dish_categories[k].count > 1
          /\ IndexOfCategories(ReplacedByE(hs.dish_categories, k, 1),
                               hs.late_night_order_pct, hs.avg_daily_calories)
                 < hs.health_index

\* The categories of the dishes of all orders of a day.
DayCategories(day_orders) ==
    UNION {{classify_dish(day_orders[k].dishes[d], day_orders[k].restaurant) :
               d \in 1..Len(day_orders[k].dishes)} :
           k \in 1..Len(day_orders)}

\* The dish-category penalty of a day as the claim has it.
ClaimedDishPenalty(day_orders) ==
    IF "E" \in DayCategories(day_orders) THEN -8
    ELSE IF "D" \in DayCategories(day_orders) THEN -5
    ELSE 0

\* C20: the dish-category penalty enters the index of a day once, whatever
\* the number of orders of the day: -8 if any dish of any order of the day
\* is E, otherwise -5 if any is D, otherwise 0; the index of the day is the
\* base index plus the calorie and late-night adjustments plus that penalty,
\* clamped.
C20_DishPenaltyOncePerDay ==
    Scored =>
        \A k \in 1..Len(hs.results) :
            hs.results[k].health_index =
                Clamp(hs.base_health_index
                      + CalorieAdjustment(SumCalories(hs.daily_orders[k].orders),
                                          TotalCalories(hs.daily_orders),
                                          Len(hs.daily_orders))
                      + LateNightAdjustment(hs.daily_orders[k].orders)
                      + ClaimedDishPenalty(hs.daily_orders[k].orders))

\* ------------------------------------------------------------------------
\* The summary: sentinel, oracle, cache, order of the days, floors
\* ------------------------------------------------------------------------

\* The last request was answered with a report.
Reported == sm.path \in {"cached", "generated"}

\* The orders of the window of the last request, and those of one date.
WindowOrders == AllOrders(sm.rows, sm.now, 1)
OrdersOn(date) ==
    {k \in 1..Len(WindowOrders) : date_str(WindowOrders[k].order_date) = date}

\* An order with a known time at or after 22:00 or before 05:00.
KnownLateNight(order_date) ==
    /\ ~(order_date.hour = 0 /\ order_date.minute = 0)
    /\ (order_date.hour >= 22 \/ order_date.hour < 5)

\* The score of a day when only orders with a known time can make it a
\* late-night day.
SentinelAwareScore(day, daily, base) ==
    Clamp(base
          + CalorieAdjustment(SumCalories(day.orders), TotalCalories(daily),
                              Len(daily))
          + (IF \E k \in OrdersOn(day.date) :
                   KnownLateNight(WindowOrders[k].order_date)
             THEN -10 ELSE 0)
          + DishAdjustment(day.orders))

\* C21: an order at the exact-midnight sentinel is never counted as a
\* late-night order: the late-night counter of the response counts only
\* orders with a known time, and the score of every day carries the
\* late-night adjustment only when an order with a known time of that day
\* is a late-night order.
C21_SentinelNeverLateNight ==
    Reported =>
        LET daily == SummaryDailyOrders(WindowOrders, <<>>)
            scores == sm.resp.daily_health_scores
        IN  /\ sm.resp.late_night_count
                   = Cardinality({k \in 1..Len(WindowOrders) :
                         KnownLateNight(WindowOrders[k].order_date)})
            /\ Len(scores) = Len(daily)
            /\ \A k \in 1..Len(scores) :
                   scores[k].health_index
                       = SentinelAwareScore(daily[k], daily,
                             sm.resp.health_insights.health_index)

\* The arguments get_summary hands to the service for the window of the
\* last request.
WindowDishes == dishes_with_frequency(dish_counts(WindowOrders, <<>>))
WindowIndex ==
    compute_health_index(WindowDishes, late_night_order_pct(WindowOrders),
        avg_daily_calories(SummaryDailyOrders(WindowOrders, <<>>)))

\* The oracle was called and its output did not parse as the JSON object.
OracleFailed ==
    /\ settings.anthropic_api_key
    /\ sm.reply \in {R_raise, R_malformed, R_list}

\* C22: a generated report carries the index compute_health_index gives
\* for the inputs, whatever the oracle returned, and so does the cache row
\* written with it; when the oracle's output fails to parse, the lists and
\* the narrative of the report are empty and its one-liner is the fixed
\* notice.
C22_IndexIsComputed ==
    sm.path = "generated" =>
        /\ sm.resp.health_insights.health_index = WindowIndex
        /\ sm.cached.health_insights_json.health_index = WindowIndex
        /\ OracleFailed =>
              /\ sm.resp.health_insights.one_liner
                     = "Analysis partially available"
              /\ sm.resp.health_insights.good_habits = <<>>
              /\ sm.resp.health_insights.bad_habits = <<>>
              /\ sm.resp.health_insights.lacking = <<>>
              /\ sm.resp.health_insights.best_dishes = <<>>
              /\ sm.resp.health_insights.worst_dishes = <<>>
              /\ sm.resp.health_insights.narrative = ""
              /\ sm.resp.health_insights.nutrient_levels = <<>>

\* A report generated from an oracle reply that states another index.
C22_Witness ==
    /\ sm.path = "generated"
    /\ settings.anthropic_api_key
    /\ sm.reply = R_object
    /\ sm.resp.health_insights.health_index # R_object.data.health_index
    /\ sm.resp.health_insights.narrative = R_object.data.narrative

\* C23: the health index served by a summary request is the index computed
\* from the orders that are in the analysed window at the request, after
\* any sequence of stored orders, passed months and earlier requests: a
\* cached report is served only for the order set it was generated from.
C23_ServedIndexIsCurrent ==
    Reported => sm.resp.health_insights.health_index = WindowIndex

\* The dates with at least one order in the window of the last request.
WindowDates ==
    {date_str(WindowOrders[k].order_date) : k \in 1..Len(WindowOrders)}

\* date a is before date b.
DateBefore(a, b) ==
    \/ a[1] < b[1]
    \/ a[1] = b[1] /\ a[2] < b[2]
    \/ a[1] = b[1] /\ a[2] = b[2] /\ a[3] < b[3]

\* C24: the daily scores of a report hold exactly one pair per day with an
\* order, and the pairs are in ascending order of date, in whatever order
\* the orders were stored.
C24_DailyScoresByDate ==
    Reported =>
        LET scores == sm.resp.daily_health_scores
        IN  /\ {scores[k].date : k \in 1..Len(scores)} = WindowDates
            /\ Len(scores) = Cardinality(WindowDates)
            /\ \A j, k \in 1..Len(scores) :
                   j < k => DateBefore(scores[j].date, scores[k].date)

\* The restaurants an entry of the dish history was ordered from: those of
\* the orders of the window with a dish of that name.
OrderedFrom(name) ==
    {WindowOrders[k].restaurant_name : k \in
        {k \in 1..Len(WindowOrders) :
            \E d \in 1..Len(WindowOrders[k].dishes) :
                StrLower(StrStrip(WindowOrders[k].dishes[d].name))
                    = StrLower(name)}}

\* The dish history of the window with a restaurant in every entry, for
\* windows in which every dish name was ordered from one restaurant.
FlooredDishes ==
    [k \in 1..Len(WindowDishes) |->
        FreqDish(WindowDishes[k].name, WindowDishes[k].count,
                 CHOOSE r \in OrderedFrom(WindowDishes[k].name) : TRUE)]
OneRestaurantPerDish ==
    \A k \in 1..Len(WindowDishes) :
        Cardinality(OrderedFrom(WindowDishes[k].name)) = 1

\* C26: the index of a generated report is the index of the dish history
\* in which every dish is classified together with the restaurant it was
\* ordered from, so that the floor of a chain applies to its dishes.
C26_SummaryAppliesFloor ==
    sm.path = "generated" /\ OneRestaurantPerDish =>
        sm.resp.health_insights.health_index
            = compute_health_index(FlooredDishes,
                  late_night_order_pct(WindowOrders),
                  avg_daily_calories(SummaryDailyOrders(WindowOrders, <<>>)))

\* ------------------------------------------------------------------------
\* The calorie number of a range and of a single number
\* ------------------------------------------------------------------------

\* The figures of the texts with the numbers they state, and the units the
\* patterns know.
StatedRanges ==
    {<<"300-400", 300, 400>>, <<"300 - 400", 300, 400>>,
     <<"1,000-1,200", 1000, 1200>>}
StatedNumbers == {<<"250", 250, 1>>, <<"1,200", 1200, 1>>, <<"12.5", 25, 2>>}
KnownUnits == {"kcal", " Calories", " cal"}

\* C27: from a text that states a range "L-H" followed by kcal, calories
\* or cal the midpoint (L + H) / 2 is extracted, and from a text that
\* states a single number followed by such a unit that number.
C27_RangeGivesMidpoint ==
    cn.state = "done" =>
        \A lead \in CalorieLeads, unit \in KnownUnits :
            /\ \A r \in StatedRanges :
                  cn.text = lead \o r[1] \o unit =>
                      /\ cn.result.found
                      /\ 2 * cn.result.value.num
                             = (r[2] + r[3]) * cn.result.value.den
            /\ \A n \in StatedNumbers :
                  cn.text = lead \o n[1] \o unit =>
                      /\ cn.result.found
                      /\ n[3] * cn.result.value.num
                             = n[2] * cn.result.value.den

\* ------------------------------------------------------------------------
\* Sync runs: one order per message, whole orders, one run per user, and
\* the end of a run
\* ------------------------------------------------------------------------

\* The process_emails runs of user u that have started and not ended.
ActiveRuns(u) == {r \in Runs : ~RunEnded(r) /\ run[r].user = u}

\* C29: at most one process_emails run of a user is active at any time; a
\* POST /sync accepted while an earlier one of the same user has not
\* finished starts no second run beside it.
C29_OneActiveRunPerUser ==
    \A u \in Users : Cardinality(ActiveRuns(u)) <= 1

\* The message of the user's mailbox with this id.
MessageOf(row) ==
    CHOOSE msg \in {Mailbox(row.user_id)[k] :
                       k \in 1..Len(Mailbox(row.user_id))} :
        msg.id = row.email_id

\* The sum of the calories of the dish rows that have one.
RECURSIVE DishCalories(_)
DishCalories(dishes) ==
    IF dishes = <<>> THEN 0
    ELSE (IF Head(dishes).calories = NoCal THEN 0 ELSE Head(dishes).calories)
         + DishCalories(Tail(dishes))

\* The stored order is whole: it has one dish row for every dish of a
\* candidate the extractor gives for its message, in order, and its totals
\* are those of its dish rows.
WholeOrder(row) ==
    /\ \E resp \in SyncParseResponses :
          LET got == ExtractMessage(MessageOf(row),
                                    settings.anthropic_api_key, resp)
          IN  /\ got.order.ok
              /\ got.order.restaurant_name = row.restaurant_name
              /\ Len(row.dishes) = Len(got.order.dishes)
              /\ \A k \in 1..Len(row.dishes) :
                    row.dishes[k].name = got.order.dishes[k].name
    /\ row.total_calories
           = (IF DishCalories(row.dishes) > 0 THEN DishCalories(row.dishes)
              ELSE NoCal)
    /\ row.has_estimates
           = (\E k \in 1..Len(row.dishes) : row.dishes[k].is_estimated)

\* The order is in the session of a run that has not ended.
InProgress(row) ==
    \E r \in Runs :
        /\ ~RunEnded(r)
        /\ \E k \in 1..Len(run[r].work) :
              run[r].work[k].email_id = row.email_id

\* C28: every order that is stored and not being written by a run that is
\* still active is whole, also after a run that failed midway and rolled
\* back: no order stays stored with only some of its dishes.
C28_StoredOrdersAreWhole ==
    \A k \in 1..Len(orders) : InProgress(orders[k]) \/ WholeOrder(orders[k])

\* The run at its next message, for which an order is stored.
AtStoredMessage(r) ==
    /\ AtEmail(r)
    /\ \E k \in 1..Len(orders) :
          orders[k].email_id = run[r].emails[run[r].i].id

\* C25: no two stored orders have the same message id, in every state
\* that the sync runs of the users reach, re-syncs after a failed run
\* included; a stored order is kept, and written again only by the run
\* that created it and still holds it in its session; and a run whose
\* next message already has a stored order only moves on to the message
\* after it: no filter, parser or nutrition call is made for it, and the
\* stored orders, the calorie cache and the status stay as they are.
C25_OneOrderPerMessage ==
    [][/\ \A j, k \in 1..Len(orders') :
             orders'[j].email_id = orders'[k].email_id => j = k
       /\ Len(orders') >= Len(orders)
       /\ \A k \in 1..Len(orders) :
             \/ orders'[k] = orders[k]
             \/ /\ orders'[k].email_id = orders[k].email_id
                /\ \E r \in Runs :
                      /\ ~RunEnded(r)
                      /\ \E w \in 1..Len(run[r].work) :
                            run[r].work[w].email_id = orders[k].email_id
       /\ \A r \in Runs :
             AtStoredMessage(r) =>
                 /\ run' = [run EXCEPT ![r].i = @ + 1]
                 /\ orders' = orders
                 /\ cache' = cache
                 /\ sync_status' = sync_status]_vars

\* A second run of user 1 has gone past message m1, which it skipped: the
\* order of m1 was left, without dishes, by an earlier run that failed.
C25_Witness ==
    /\ posts = 2
    /\ \E r \in Runs :
          /\ run[r].pc = "loop"
          /\ run[r].user = 1
          /\ run[r].i = 2
          /\ run[r].work = <<>>
          /\ sync_status[1].status = "processing"
          /\ \A q \in Runs \ {r} : RunEnded(q)
    /\ \E k \in 1..Len(orders) :
          orders[k].email_id = "m1" /\ orders[k].dishes = <<>>

\* The status of a user is terminal.
Terminal(u) == sync_status[u].status \in {"completed", "error"}

====
